---- MODULE Spec2Model ----
(***************************************************************************)
(* Verification model of upstash/core-analytics: the time-bucketed event   *)
(* counter (ingest), the server-side scripts (aggregateHourScript,         *)
(* getMostAllowedBlockedScript) with their TypeScript wrappers, and the    *)
(* read-through cache / retention logic of loadBuckets.                    *)
(*                                                                         *)
(* The repository holds three Analytics classes:                           *)
(*   "core"   src/unnamed/part_001         sorted sets, ZINCRBY, scripts   *)
(*   "cached" src/src/analytics.ts         hashes, HINCRBY, cache, retain  *)
(*   "sdk"    src/packages/sdk/src/analytics.ts  hashes, HINCRBY           *)
(* The variable impl says which class the instance under study is.         *)
(***************************************************************************)
EXTENDS Integers, Sequences, FiniteSets, TLC

VARIABLES
    impl,        \* which Analytics class the instance is
    bucketSize,  \* this.bucketSize (ms)
    retention,   \* this.retention (ms), 0 when undefined
    now,         \* Date.now()
    calls,       \* per caller: its ingest call and the state of each event's command
    store,       \* the Redis database: key -> (member/field -> count)
    cache,       \* Cache.cache: key -> {value, createdAt}
    result,      \* what the last read operation returned
    evicted,     \* history: the keys retention deleted and ingest has not re-created
    deletions    \* history: key -> how many times redis.del has deleted it

vars == <<impl, bucketSize, retention, now, calls, store, cache, result, evicted, deletions>>

----------------------------------------------------------------------------
(* Bounds of the model *)
MaxEvents == 3          \* events over all ingest calls of a behaviour
MaxTimestampCount == 2  \* timestampCount of a ranking
MaxItemCount == 2       \* itemCount of a ranking
MaxCheckAtMost == 4     \* checkAtMost of a ranking
MaxBucketCount == 3     \* bucketCount of aggregateBuckets
MaxPipelineSize == 2    \* maxPipelineSize of aggregateBucketsWithPipeline
ClockSlack == 2         \* the cache specification observes the clock at k * TTL + 0..ClockSlack
MaxTime == 5            \* times and timestamps of the key specification are within -MaxTime..MaxTime
MaxSize == 4            \* bucket sizes of the key specification are 1..MaxSize
SweepTtl == 2           \* ttl, in clock ticks, of the Cache of the sweep specification

----------------------------------------------------------------------------
(* JavaScript values.  All values share one record shape so that they can  *)
(* be compared.                                                            *)
Num(n) == [t |-> "number", n |-> n, s |-> ""]
Str(s) == [t |-> "string", n |-> 0, s |-> s]
Bool(b) == [t |-> "boolean", n |-> IF b THEN 1 ELSE 0, s |-> ""]
Undefined == [t |-> "undefined", n |-> 0, s |-> ""]

(* An object is the sequence of its own properties <<name, value>> in      *)
(* insertion order.                                                        *)
HasProp(obj, name) == \E i \in 1..Len(obj) : obj[i][1] = name

Prop(obj, name) ==
    IF HasProp(obj, name)
    THEN obj[CHOOSE i \in 1..Len(obj) : obj[i][1] = name][2]
    ELSE Undefined

SpreadKeepTime(event) == event

(* { ...event, time: undefined } *)
SpreadTimeUndefined(event) ==
    IF HasProp(event, "time")
    THEN [i \in 1..Len(event) |->
            IF event[i][1] = "time" THEN <<"time", Undefined>> ELSE event[i]]
    ELSE Append(event, <<"time", Undefined>>)

(* JSON.stringify of a flat object: properties whose value is undefined    *)
(* are left out, the others are written in property order.  The JSON text  *)
(* is represented by the sequence of the <<name, value>> pairs it holds.   *)
JSONstringify(obj) == SelectSeq(obj, LAMBDA p : p[2] # Undefined)

----------------------------------------------------------------------------
(* Table names are strings, modelled as sequences of characters. *)
Digits == {"0","1","2","3","4","5","6","7","8","9"}
TableChars ==
    {"a","b","c","d","e","f","g","h","i","j","k","l","m","n","o","p",
     "q","r","s","t","u","v","w","x","y","z",
     "A","B","C","D","E","F","G","H","I","J","K","L","M","N","O","P",
     "Q","R","S","T","U","V","W","X","Y","Z"} \cup Digits \cup {"_", "-"}

FooBar1 == <<"f","o","o","-","b","a","r","_","1">>
FooSpaceBar == <<"f","o","o"," ","b","a","r">>

(* /^[a-zA-Z0-9_-]+$/.test(table) *)
validateTableName(table) ==
    /\ Len(table) >= 1
    /\ \A i \in 1..Len(table) : table[i] \in TableChars

Prefix == "@upstash/analytics"

(* [a, b, c].join(":") is represented by the sequence of its components *)
Join(parts) == parts

(* The bucket rounded up instead of down *)
getBucketCeil(time, size) == ((time + size - 1) \div size) * size

(* Math.floor(bucketTime / this.bucketSize) * this.bucketSize *)
getBucket(time, size) == (time \div size) * size

----------------------------------------------------------------------------
(* The store.  A key that holds no member does not exist. *)
Score(db, key, member) ==
    IF key \in DOMAIN db /\ member \in DOMAIN db[key] THEN db[key][member] ELSE 0

Exists(db, key) == key \in DOMAIN db

Bucket(db, key) == IF key \in DOMAIN db THEN db[key] ELSE <<>>

zincrbyLost(db, key, member) ==
    (key :> ((member :> 1) @@ Bucket(db, key))) @@ db

(* redis.zincrby(key, 1, member): one atomic command of the store *)
zincrby(db, key, member) ==
    (key :> ((member :> (Score(db, key, member) + 1)) @@ Bucket(db, key))) @@ db

(* The hash written anew with the one field *)
hincrbyOverwrite(db, key, field) == (key :> (field :> 1)) @@ db

(* redis.hincrby(key, field, 1): one atomic command of the store *)
hincrby(db, key, field) ==
    (key :> ((field :> (Score(db, key, field) + 1)) @@ Bucket(db, key))) @@ db

(* redis.del(key), for each key of a set *)
del(db, keys) == [k \in (DOMAIN db) \ keys |-> db[k]]

----------------------------------------------------------------------------
(* Events offered to ingest *)
IdA == <<"identifier", Str("A")>>
IdB == <<"identifier", Str("B")>>
EvA0 == << <<"time", Num(0)>>, IdA, <<"success", Bool(TRUE)>> >>
EvA1 == << IdA, <<"success", Bool(TRUE)>>, <<"time", Num(1)>> >>
EvB == << IdB, <<"success", Bool(FALSE)>> >>

Impls == {"core", "cached", "sdk"}
TableNames == {FooBar1, FooSpaceBar}

Batches == UNION {[1..n -> {EvA0, EvA1, EvB}] : n \in {0, 1, 2}}

(* event.time ?? Date.now() *)
TimeOf(event, clock) ==
    IF Prop(event, "time") = Undefined THEN clock ELSE Prop(event, "time").n

(* The command one event of an ingest call sends: the key and the member   *)
(* are computed when the call is made.                                     *)
IngestRequest(table, event) ==
    [key |-> Join(<<Prefix, table, getBucket(TimeOf(event, now), bucketSize)>>),
     member |-> JSONstringify(SpreadTimeUndefined(event))]

Callers == {1, 2}

(* A caller that has not called ingest *)
NoCall == [table |-> <<>>, events |-> <<>>, at |-> 0, error |-> "idle",
           reqs |-> <<>>, status |-> <<>>]

TotalEvents == LET RECURSIVE Sum(_)
                   Sum(S) == IF S = {} THEN 0
                             ELSE LET c == CHOOSE c \in S : TRUE
                                  IN Len(calls[c].events) + Sum(S \ {c})
               IN Sum(Callers)

(* The record of an ingest call that threw in validateTableName: no        *)
(* command was sent.                                                       *)
RejectedCall(table, events) ==
    [table |-> table, events |-> <<>>, at |-> now,
     error |-> "InvalidTableName",
     reqs |-> <<>>,
     status |-> <<>>]

IssuedCallSequential(table, events) ==
    [table |-> table, events |-> events, at |-> now,
     error |-> "none",
     reqs |-> [i \in 1..Len(events) |-> IngestRequest(table, events[i])],
     status |-> [i \in 1..Len(events) |-> IF i = 1 THEN "inflight" ELSE "unissued"]]

(* await Promise.all(events.map(async (event) => { ... await incr })):     *)
(* map runs every callback up to its await, so the command of every event  *)
(* is sent before the call waits for any of them.                          *)
IssuedCall(table, events) ==
    [table |-> table, events |-> events, at |-> now,
     error |-> "none",
     reqs |-> [i \in 1..Len(events) |-> IngestRequest(table, events[i])],
     status |-> [i \in 1..Len(events) |-> "inflight"]]

(* Analytics.ingest of the core class (ZINCRBY) up to its await *)
ingest(caller, table, events) ==
    /\ impl = "core"
    /\ calls[caller] = NoCall
    /\ TotalEvents + Len(events) <= MaxEvents
    /\ calls' = [calls EXCEPT ![caller] = IF validateTableName(table)
                                          THEN IssuedCall(table, events)
                                          ELSE RejectedCall(table, events)]
    /\ UNCHANGED <<impl, bucketSize, retention, now, store, cache, result, evicted, deletions>>

(* Analytics.ingest of the cached class (HINCRBY) up to its await *)
ingestCached(caller, table, events) ==
    /\ impl = "cached"
    /\ calls[caller] = NoCall
    /\ TotalEvents + Len(events) <= MaxEvents
    /\ calls' = [calls EXCEPT ![caller] = IF validateTableName(table)
                                          THEN IssuedCall(table, events)
                                          ELSE RejectedCall(table, events)]
    /\ UNCHANGED <<impl, bucketSize, retention, now, store, cache, result, evicted, deletions>>

(* Analytics.ingest of the sdk class (HINCRBY): the table name is not      *)
(* checked.                                                                *)
ingestSdk(caller, table, events) ==
    /\ impl = "sdk"
    /\ calls[caller] = NoCall
    /\ TotalEvents + Len(events) <= MaxEvents
    /\ calls' = [calls EXCEPT ![caller] = IssuedCall(table, events)]
    /\ UNCHANGED <<impl, bucketSize, retention, now, store, cache, result, evicted, deletions>>

(* The store executes the command of event i of call c *)
Apply(c, i) ==
    /\ calls[c].status[i] = "inflight"
    /\ calls' = [calls EXCEPT ![c].status[i] = "applied"]
    /\ store' = IF impl = "core"
                THEN zincrby(store, calls[c].reqs[i].key, calls[c].reqs[i].member)
                ELSE hincrby(store, calls[c].reqs[i].key, calls[c].reqs[i].member)
    /\ evicted' = evicted \ {calls[c].reqs[i].key}
    /\ UNCHANGED <<impl, bucketSize, retention, now, cache, result, deletions>>

(* The command of event i of call c fails (store unavailable, transport    *)
(* error): the promise of that event rejects, nothing is written.          *)
Fail(c, i) ==
    /\ calls[c].status[i] = "inflight"
    /\ calls' = [calls EXCEPT ![c].status[i] = "failed"]
    /\ UNCHANGED <<impl, bucketSize, retention, now, store, cache, result, evicted, deletions>>

(* What the caller of ingest observes: Promise.all rejects with the first  *)
(* rejection and resolves once every event's promise has resolved.         *)
CallState(call) ==
    IF call.error = "idle" THEN "idle"
    ELSE IF call.error # "none" THEN "rejected"
    ELSE IF \E i \in 1..Len(call.status) : call.status[i] = "failed" THEN "rejected"
    ELSE IF \A i \in 1..Len(call.status) : call.status[i] = "applied" THEN "resolved"
    ELSE "pending"

NoResult == [op |-> "none"]

Init ==
    /\ impl \in Impls
    /\ bucketSize \in {1, 2}
    /\ retention = 0
    /\ now \in {0, 1}
    /\ calls = [c \in Callers |-> NoCall]
    /\ store = <<>>
    /\ cache = <<>>
    /\ result = NoResult
    /\ evicted = {}
    /\ deletions = <<>>

Next ==
    \/ \E c \in Callers, table \in TableNames, events \in Batches : ingest(c, table, events)
    \/ \E c \in Callers, table \in TableNames, events \in Batches : ingestCached(c, table, events)
    \/ \E c \in Callers, table \in TableNames, events \in Batches : ingestSdk(c, table, events)
    \/ \E c \in Callers : \E i \in 1..Len(calls[c].status) : Apply(c, i)
    \/ \E c \in Callers : \E i \in 1..Len(calls[c].status) : Fail(c, i)

Spec == Init /\ [][Next]_vars

----------------------------------------------------------------------------
(* The server-side scripts.  A sorted set is read in ascending score order; *)
(* members of equal score are in ascending lexicographic order of their     *)
(* JSON text.  All member texts used here start with {"identifier":" and    *)
(* the letter that follows decides the order; texts of one identifier go    *)
(* on with ,"success": and are ordered by the value ("denied" before false  *)
(* before true) and then, a "," being less than a "}", the text with a      *)
(* further attribute before the text that ends there.                       *)
LetterRank == [l \in {"A", "B", "C", "D"} |->
                 CASE l = "A" -> 1 [] l = "B" -> 2 [] l = "C" -> 3 [] l = "D" -> 4]

(* entry e1 comes before entry e2 in a sorted set; an entry is <<member, score>> *)
Before(e1, e2) ==
    LET letter(m) == LetterRank[Prop(m, "identifier").s]
        rest(m) == 2 * (CASE Prop(m, "success") = Bool(TRUE) -> 2
                          [] Prop(m, "success") = Bool(FALSE) -> 1
                          [] OTHER -> 0)
                   + (IF Len(m) > 2 THEN 0 ELSE 1)
    IN \/ e1[2] < e2[2]
       \/ /\ e1[2] = e2[2]
          /\ \/ letter(e1[1]) < letter(e2[1])
             \/ letter(e1[1]) = letter(e2[1]) /\ rest(e1[1]) < rest(e2[1])

(* The entries of a set of <<member, score>> in sorted-set order *)
RECURSIVE SortEntries(_)
SortEntries(S) ==
    IF S = {} THEN <<>>
    ELSE LET first == CHOOSE e \in S : \A f \in S \ {e} : Before(e, f)
         IN <<first>> \o SortEntries(S \ {first})

RECURSIVE SumScores(_, _, _)
SumScores(db, keys, member) ==
    IF keys = <<>> THEN 0
    ELSE Score(db, Head(keys), member) + SumScores(db, Tail(keys), member)

(* The union, were the first set read when the command was sent and the     *)
(* other sets when it runs                                                  *)
zunionMixed(db, keys) ==
    LET sent == IF "sentStore" \in DOMAIN result THEN result.sentStore ELSE db
        members == (DOMAIN Bucket(sent, keys[1]))
                   \cup UNION {DOMAIN Bucket(db, keys[j]) : j \in 2..Len(keys)}
    IN SortEntries({<<m, Score(sent, keys[1], m) + SumScores(db, Tail(keys), m)>> :
                      m \in members})

(* ZUNION numkeys key... WITHSCORES: every member of any of the sets with   *)
(* the sum of its scores, in sorted-set order                               *)
zunion(db, keys) ==
    LET members == UNION {DOMAIN Bucket(db, keys[j]) : j \in 1..Len(keys)}
    IN SortEntries({<<m, SumScores(db, keys, m)>> : m \in members})

(* ZRANGE key 0 -1 WITHSCORES *)
zrange(db, key) ==
    SortEntries({<<m, Score(db, key, m)>> : m \in DOMAIN Bucket(db, key)})

(* keys = prefix .. ":" .. (first_timestamp - (i - 1) * increment), i = 1..n *)
ScriptKeys(prefix, first_timestamp, increment, num_timestamps) ==
    [i \in 1..num_timestamps |-> Append(prefix, first_timestamp - (i - 1) * increment)]

(* string.find(element, "success\":true") and the like: the text of the     *)
(* member holds the property success with that value                        *)
StringFindSuccess(element, value) ==
    \E j \in 1..Len(element) : element[j] = <<"success", value>>

CutoffIndexOffByOne(resultLen, check_at_most) == resultLen - 2 * check_at_most - 1

(* local cutoff_index = #result - 2 * check_at_most *)
CutoffIndex(resultLen, check_at_most) == resultLen - 2 * check_at_most

(* The loop, were it to end at the first member whose category is full *)
RECURSIVE RankLoopStopAtFull(_, _, _, _)
RankLoopStopAtFull(union, num_elements, cutoff_index, g) ==
    IF /\ (Len(g.true_group) + Len(g.false_group) + Len(g.denied_group)) < (num_elements * 3)
       /\ 1 <= g.i
       /\ g.i >= cutoff_index
    THEN LET score == union[(g.i + 1) \div 2][2]
             element == union[(g.i + 1) \div 2][1]
             next == [g EXCEPT !.i = @ - 2]
         IN IF StringFindSuccess(element, Bool(TRUE))
            THEN IF Len(g.true_group) < num_elements
                 THEN RankLoopStopAtFull(union, num_elements, cutoff_index,
                                         [next EXCEPT !.true_group = Append(@, <<score, element>>)])
                 ELSE g
            ELSE IF StringFindSuccess(element, Bool(FALSE))
            THEN IF Len(g.false_group) < num_elements
                 THEN RankLoopStopAtFull(union, num_elements, cutoff_index,
                                         [next EXCEPT !.false_group = Append(@, <<score, element>>)])
                 ELSE g
            ELSE IF StringFindSuccess(element, Str("denied"))
            THEN IF Len(g.denied_group) < num_elements
                 THEN RankLoopStopAtFull(union, num_elements, cutoff_index,
                                         [next EXCEPT !.denied_group = Append(@, <<score, element>>)])
                 ELSE g
            ELSE RankLoopStopAtFull(union, num_elements, cutoff_index, next)
    ELSE g

(* The while loop of getMostAllowedBlockedScript.  union holds the entries  *)
(* of the flat array result: result[2p - 1] is the member and result[2p]    *)
(* the score of union[p].  g is the state of the loop: the three groups     *)
(* (their lengths are true_count, false_count, denied_count) and i.         *)
RECURSIVE RankLoop(_, _, _, _)
RankLoop(union, num_elements, cutoff_index, g) ==
    IF /\ (Len(g.true_group) + Len(g.false_group) + Len(g.denied_group)) < (num_elements * 3)
       /\ 1 <= g.i
       /\ g.i >= cutoff_index
    THEN LET score == union[(g.i + 1) \div 2][2]
             element == union[(g.i + 1) \div 2][1]
             g1 == IF score > 0
                   THEN IF StringFindSuccess(element, Bool(TRUE)) /\ Len(g.true_group) < num_elements
                        THEN [g EXCEPT !.true_group = Append(@, <<score, element>>)]
                        ELSE IF StringFindSuccess(element, Bool(FALSE)) /\ Len(g.false_group) < num_elements
                        THEN [g EXCEPT !.false_group = Append(@, <<score, element>>)]
                        ELSE IF StringFindSuccess(element, Str("denied")) /\ Len(g.denied_group) < num_elements
                        THEN [g EXCEPT !.denied_group = Append(@, <<score, element>>)]
                        ELSE g
                   ELSE g
         IN RankLoop(union, num_elements, cutoff_index, [g1 EXCEPT !.i = @ - 2])
    ELSE g

ScriptError == [err |-> TRUE]

(* getMostAllowedBlockedScript run with KEYS = <<prefix>> and ARGV.  An     *)
(* ARGV of fewer than 5 entries leaves check_at_most nil, and the           *)
(* arithmetic on it at cutoff_index raises an error; ZUNION with 0 keys is  *)
(* an error of the store.                                                   *)
getMostAllowedBlockedScript(db, prefix, ARGV) ==
    IF Len(ARGV) < 5 \/ ARGV[3] < 1
    THEN ScriptError
    ELSE LET first_timestamp == ARGV[1]
             increment == ARGV[2]
             num_timestamps == ARGV[3]
             num_elements == ARGV[4]
             check_at_most == ARGV[5]
             union == zunion(db, ScriptKeys(prefix, first_timestamp, increment, num_timestamps))
             g == RankLoop(union, num_elements,
                           CutoffIndex(2 * Len(union), check_at_most),
                           [true_group |-> <<>>, false_group |-> <<>>,
                            denied_group |-> <<>>, i |-> 2 * Len(union) - 1])
         IN [err |-> FALSE,
             groups |-> <<g.true_group, g.false_group, g.denied_group>>,
             i |-> g.i]

(* How a Lua value of a script's reply reaches the client: true becomes 1,  *)
(* false becomes null, strings and numbers are kept.                        *)
LuaToReply(v) ==
    IF v = Bool(TRUE) THEN Num(1)
    ELSE IF v = Bool(FALSE) THEN [t |-> "null", n |-> 0, s |-> ""]
    ELSE v

(* The loop of aggregateHourScript over data (from entry p on): count is    *)
(* the table fieldValue -> total.  obj[field] is nil when field is nil or   *)
(* the member has no such property, and count[nil] = score raises "table    *)
(* index is nil".                                                           *)
RECURSIVE AggregateLoop(_, _, _, _)
AggregateLoop(data, field, p, count) ==
    IF p > Len(data) THEN [err |-> FALSE, count |-> count]
    ELSE LET obj == data[p][1]
             score == data[p][2]
             fieldValue == IF field = Undefined THEN Undefined ELSE Prop(obj, field.s)
         IN IF fieldValue = Undefined
            THEN [err |-> TRUE, count |-> count]
            ELSE IF fieldValue \notin DOMAIN count
            THEN AggregateLoop(data, field, p + 1, (fieldValue :> score) @@ count)
            ELSE AggregateLoop(data, field, p + 1,
                               [count EXCEPT ![fieldValue] = count[fieldValue] + score])

(* aggregateHourScript run with KEYS = <<key>> and ARGV: the rows {k, v}    *)
(* of its reply.  pairs(count) yields them in an order the script does not  *)
(* control, so the rows are given as a set.                                 *)
aggregateHourScript(db, key, ARGV) ==
    LET field == IF Len(ARGV) >= 1 THEN ARGV[1] ELSE Undefined
        r == AggregateLoop(zrange(db, key), field, 1, <<>>)
    IN IF r.err THEN ScriptError
       ELSE [err |-> FALSE,
             rows |-> {<<LuaToReply(k), r.count[k]>> : k \in DOMAIN r.count}]

(* The replies the client can receive: one per order of the rows *)
Orderings(S) ==
    {seq \in [1..Cardinality(S) -> S] : \A i, j \in 1..Cardinality(S) : i # j => seq[i] # seq[j]}

ScriptReplies(db, key, ARGV) ==
    LET r == aggregateHourScript(db, key, ARGV)
    IN IF r.err THEN {ScriptError}
       ELSE {[err |-> FALSE, rows |-> seq] : seq \in Orderings(r.rows)}

----------------------------------------------------------------------------
(* The read operations of the core class *)
NoArg == 0 - 1          \* an optional argument that is left out

(* time ?? Date.now() *)
OrNow(time) == IF time = NoArg THEN now ELSE time

(* result[j] of a JavaScript array (index from 0): <<>> stands for undefined *)
At(array, j) == IF j + 1 <= Len(array) THEN <<array[j + 1]>> ELSE <<>>

(* What aggregateBucket makes of the reply of the script *)
AggregateOf(bucket, reply) ==
    [time |-> bucket,
     success |-> [true |-> At(reply.rows, 0), false |-> At(reply.rows, 1)]]

(* Analytics.aggregateBucket(table, timestamp): eval(aggregateHourScript,  *)
(* [key], [])                                                               *)
aggregateBucket(table, timestamp) ==
    /\ impl = "core"
    /\ result = NoResult
    /\ IF ~validateTableName(table)
       THEN result' = [op |-> "aggregateBucket", table |-> table, timestamp |-> timestamp,
                       err |-> "InvalidTableName", value |-> <<>>]
       ELSE LET bucket == getBucket(OrNow(timestamp), bucketSize)
                key == Join(<<Prefix, table, bucket>>)
            IN \E reply \in ScriptReplies(store, key, <<>>) :
                 result' = [op |-> "aggregateBucket", table |-> table, timestamp |-> timestamp,
                            err |-> IF reply.err THEN "ScriptError" ELSE "none",
                            value |-> IF reply.err THEN <<>> ELSE <<AggregateOf(bucket, reply)>>]
    /\ UNCHANGED <<impl, bucketSize, retention, now, calls, store, cache, evicted, deletions>>

(* The buckets aggregateBuckets and aggregateBucketsWithPipeline walk:      *)
(* bucket = getBucket(timestamp), then bucket - bucketSize, ...             *)
BucketsDownFrom(bucket, bucketCount) ==
    [j \in 1..bucketCount |-> bucket - (j - 1) * bucketSize]

(* The outcomes of Promise.all over one aggregateBucket(table, bucket) per  *)
(* walked bucket: it rejects if one of them rejects.                        *)
AggregateBucketsOutcomes(db, table, bucketCount, timestamp) ==
    LET buckets == BucketsDownFrom(getBucket(OrNow(timestamp), bucketSize), bucketCount)
        keyOf(j) == Join(<<Prefix, table, getBucket(buckets[j], bucketSize)>>)
        choices == {rs \in [1..bucketCount -> UNION {ScriptReplies(db, keyOf(j), <<>>) : j \in 1..bucketCount}] :
                      \A j \in 1..bucketCount : rs[j] \in ScriptReplies(db, keyOf(j), <<>>)}
    IN {IF \E j \in 1..bucketCount : rs[j].err
        THEN [err |-> "ScriptError", value |-> <<>>]
        ELSE [err |-> "none",
              value |-> [j \in 1..bucketCount |->
                           AggregateOf(getBucket(buckets[j], bucketSize), rs[j])]] : rs \in choices}

(* Analytics.aggregateBuckets(table, bucketCount, timestamp) *)
aggregateBuckets(table, bucketCount, timestamp) ==
    /\ impl = "core"
    /\ result = NoResult
    /\ IF ~validateTableName(table)
       THEN result' = [op |-> "aggregateBuckets", table |-> table, bucketCount |-> bucketCount,
                       timestamp |-> timestamp, maxPipelineSize |-> NoArg,
                       err |-> "InvalidTableName", value |-> <<>>]
       ELSE \E o \in AggregateBucketsOutcomes(store, table, bucketCount, timestamp) :
              result' = [op |-> "aggregateBuckets", table |-> table, bucketCount |-> bucketCount,
                         timestamp |-> timestamp, maxPipelineSize |-> NoArg,
                         err |-> o.err, value |-> o.value]
    /\ UNCHANGED <<impl, bucketSize, retention, now, calls, store, cache, evicted, deletions>>

DefaultMaxPipelineSize == 48

PipelineFlushOnlyWhenFull(i, bucketCount, maxPipelineSize) == i % maxPipelineSize = 0

PipelineFlushOnlyAtEnd(i, bucketCount, maxPipelineSize) == i = bucketCount

(* if (i % maxPipelineSize == 0 || i == bucketCount) *)
PipelineFlush(i, bucketCount, maxPipelineSize) ==
    i % maxPipelineSize = 0 \/ i = bucketCount

(* The for loop of aggregateBucketsWithPipeline from i on: st.pipeline is   *)
(* the open pipeline (the keys of its commands), st.batches the pipelines   *)
(* executed so far, st.buckets the bucket of every command, st.bucket the   *)
(* next bucket.                                                             *)
RECURSIVE PipelineLoop(_, _, _, _, _)
PipelineLoop(table, bucketCount, maxPipelineSize, i, st) ==
    IF i > bucketCount THEN st
    ELSE LET key == Join(<<Prefix, table, st.bucket>>)
             pipeline == Append(st.pipeline, key)
             flush == PipelineFlush(i, bucketCount, maxPipelineSize)
         IN PipelineLoop(table, bucketCount, maxPipelineSize, i + 1,
                [bucket |-> st.bucket - bucketSize,
                 buckets |-> Append(st.buckets, st.bucket),
                 batches |-> IF flush THEN Append(st.batches, pipeline) ELSE st.batches,
                 pipeline |-> IF flush THEN <<>> ELSE pipeline])

RECURSIVE Flat(_)
Flat(seqs) == IF seqs = <<>> THEN <<>> ELSE Head(seqs) \o Flat(Tail(seqs))

(* The outcomes of aggregateBucketsWithPipeline: every executed pipeline    *)
(* replies with the replies of its commands in order (exec rejects if a     *)
(* command failed), Promise.all keeps the order of the pipelines, flat()    *)
(* concatenates them, and reply number index is paired with buckets[index]. *)
PipelineOutcomes(db, table, bucketCount, timestamp, maxPipelineSize) ==
    LET size == IF maxPipelineSize = NoArg THEN DefaultMaxPipelineSize ELSE maxPipelineSize
        st == PipelineLoop(table, bucketCount, size, 1,
                  [bucket |-> getBucket(OrNow(timestamp), bucketSize), buckets |-> <<>>,
                   batches |-> <<>>, pipeline |-> <<>>])
        keys == Flat(st.batches)
        choices == {rs \in [1..Len(keys) -> UNION {ScriptReplies(db, keys[j], <<>>) : j \in 1..Len(keys)}] :
                      \A j \in 1..Len(keys) : rs[j] \in ScriptReplies(db, keys[j], <<>>)}
    IN {IF \E j \in 1..Len(keys) : rs[j].err
        THEN [err |-> "ScriptError", value |-> <<>>]
        ELSE [err |-> "none",
              value |-> [j \in 1..Len(keys) |-> AggregateOf(st.buckets[j], rs[j])]] : rs \in choices}

(* Analytics.aggregateBucketsWithPipeline(table, bucketCount, timestamp,    *)
(* maxPipelineSize)                                                         *)
aggregateBucketsWithPipeline(table, bucketCount, timestamp, maxPipelineSize) ==
    /\ impl = "core"
    /\ result = NoResult
    /\ IF ~validateTableName(table)
       THEN result' = [op |-> "aggregateBucketsWithPipeline", table |-> table,
                       bucketCount |-> bucketCount, timestamp |-> timestamp,
                       maxPipelineSize |-> maxPipelineSize,
                       err |-> "InvalidTableName", value |-> <<>>]
       ELSE \E o \in PipelineOutcomes(store, table, bucketCount, timestamp, maxPipelineSize) :
              result' = [op |-> "aggregateBucketsWithPipeline", table |-> table,
                         bucketCount |-> bucketCount, timestamp |-> timestamp,
                         maxPipelineSize |-> maxPipelineSize,
                         err |-> o.err, value |-> o.value]
    /\ UNCHANGED <<impl, bucketSize, retention, now, calls, store, cache, evicted, deletions>>

NaN == [t |-> "number", n |-> 0, s |-> "NaN"]

(* Analytics.toDicts: for (i = 0; i < array.length; i += 2) it reads        *)
(* array[i].identifier and +array[i + 1].  The entries of a group of the    *)
(* script are rows [score, element]: a row has no property identifier, and  *)
(* + of a row (or of undefined, past the end) is NaN.                       *)
toDicts(array) ==
    [j \in 1..((Len(array) + 1) \div 2) |-> [identifier |-> Undefined, count |-> NaN]]

(* Analytics.getMostAllowedBlocked(table, timestampCount, itemCount,        *)
(* timestamp): eval(getMostAllowedBlockedScript, [key], [bucket,            *)
(* this.bucketSize, timestampCount, itemCount])                             *)
getMostAllowedBlocked(table, timestampCount, itemCount, timestamp) ==
    /\ impl = "core"
    /\ result = NoResult
    /\ LET key == Join(<<Prefix, table>>)
           bucket == getBucket(OrNow(timestamp), bucketSize)
           reply == getMostAllowedBlockedScript(store, key,
                        <<bucket, bucketSize, timestampCount, itemCount>>)
           err == IF ~validateTableName(table) THEN "InvalidTableName"
                  ELSE IF reply.err THEN "ScriptError" ELSE "none"
       IN result' = [op |-> "getMostAllowedBlocked", table |-> table,
                     timestampCount |-> timestampCount, itemCount |-> itemCount,
                     timestamp |-> timestamp, err |-> err, reply |-> reply,
                     allowed |-> IF err = "none" THEN toDicts(reply.groups[1]) ELSE <<>>,
                     blocked |-> IF err = "none" THEN toDicts(reply.groups[2]) ELSE <<>>]
    /\ UNCHANGED <<impl, bucketSize, retention, now, calls, store, cache, evicted, deletions>>

(* redis.eval(getMostAllowedBlockedScript, [prefix:table], [bucket,         *)
(* bucketSize, timestampCount, itemCount, checkAtMost]): the script run     *)
(* with the five arguments it reads                                         *)
evalGetMostAllowedBlockedScript(table, timestamp, timestampCount, itemCount, checkAtMost) ==
    /\ impl = "core"
    /\ result = NoResult
    /\ LET ARGV == <<getBucket(OrNow(timestamp), bucketSize), bucketSize,
                     timestampCount, itemCount, checkAtMost>>
       IN result' = [op |-> "evalGetMostAllowedBlockedScript", table |-> table,
                     ARGV |-> ARGV,
                     reply |-> getMostAllowedBlockedScript(store, Join(<<Prefix, table>>), ARGV)]
    /\ UNCHANGED <<impl, bucketSize, retention, now, calls, store, cache, evicted, deletions>>

----------------------------------------------------------------------------
(* The specification of the read operations of the core class: the store   *)
(* holds any counters ingest can have written into the two newest buckets   *)
(* of table foo-bar_1, and one read operation is performed.                 *)
MemA == JSONstringify(<<IdA, <<"success", Bool(TRUE)>> >>)
MemB == JSONstringify(<<IdB, <<"success", Bool(FALSE)>> >>)
MemD == JSONstringify(<< <<"identifier", Str("D")>>, <<"success", Str("denied")>> >>)

ReadBucketSize == 2
ReadNow == 3
NewBucket == Join(<<Prefix, FooBar1, getBucket(ReadNow, ReadBucketSize)>>)
OldBucket == Join(<<Prefix, FooBar1, getBucket(ReadNow, ReadBucketSize) - ReadBucketSize>>)

(* The store in which cell <<key, member>> holds f[cell]; 0 is no member *)
StoreOf(f) ==
    LET keys == {c[1] : c \in {c \in DOMAIN f : f[c] > 0}}
    IN [k \in keys |-> [m \in {c[2] : c \in {c \in DOMAIN f : c[1] = k /\ f[c] > 0}} |-> f[<<k, m>>]]]

ReadStores ==
    {StoreOf(f) : f \in [{<<NewBucket, MemA>>, <<OldBucket, MemA>>, <<NewBucket, MemB>>,
                          <<OldBucket, MemB>>, <<NewBucket, MemD>>,
                          <<NewBucket, JSONstringify(<< <<"identifier", Str("C")>>,
                                                        <<"success", Bool(TRUE)>> >>)>>}
                         -> {0, 1, 2}]}
ReadTimestamps == {NoArg, ReadNow - ReadBucketSize, ReadNow - 1}

InitRead ==
    /\ impl = "core"
    /\ bucketSize = ReadBucketSize
    /\ retention = 0
    /\ now = ReadNow
    /\ calls = [c \in Callers |-> NoCall]
    /\ store \in ReadStores
    /\ cache = <<>>
    /\ result = NoResult
    /\ evicted = {}
    /\ deletions = <<>>

NextRead ==
    \/ \E table \in TableNames, timestamp \in ReadTimestamps :
          aggregateBucket(table, timestamp)
    \/ \E table \in TableNames, bucketCount \in 0..MaxBucketCount, timestamp \in ReadTimestamps :
          aggregateBuckets(table, bucketCount, timestamp)
    \/ \E table \in TableNames, bucketCount \in 0..MaxBucketCount, timestamp \in ReadTimestamps,
          maxPipelineSize \in {NoArg} \cup (1..MaxPipelineSize) :
          aggregateBucketsWithPipeline(table, bucketCount, timestamp, maxPipelineSize)
    \/ \E table \in TableNames, timestampCount \in 0..MaxTimestampCount,
          itemCount \in 0..MaxItemCount, timestamp \in ReadTimestamps :
          getMostAllowedBlocked(table, timestampCount, itemCount, timestamp)
    \/ \E timestamp \in ReadTimestamps, timestampCount \in 0..MaxTimestampCount,
          itemCount \in 0..MaxItemCount, checkAtMost \in 0..MaxCheckAtMost :
          evalGetMostAllowedBlockedScript(FooBar1, timestamp, timestampCount, itemCount, checkAtMost)

SpecRead == InitRead /\ [][NextRead]_vars

----------------------------------------------------------------------------
(* The cached class: Cache and loadBuckets *)
(* private readonly cache = new Cache<Record<string, number>>(60000) *)
TTL == 60000

CacheLiveStrict(c, key, clock, ttl) ==
    key \in DOMAIN c /\ ~(clock - c[key].createdAt >= ttl)

(* Cache.get returns the value: the entry exists and not                    *)
(* Date.now() - data.createdAt > this.ttl                                   *)
CacheLive(c, key, clock, ttl) ==
    key \in DOMAIN c /\ ~(clock - c[key].createdAt > ttl)

(* redis.scan until the cursor is 0 with match prefix:table:* : the keys of *)
(* the table                                                                *)
ScanFound(db, table) == {k \in DOMAIN db : k[1] = Prefix /\ k[2] = table}

(* The test without the guard on this.retention *)
ExpiredUnguarded(key) == key[3] < now - retention

(* this.retention && timestamp < now - this.retention *)
Expired(key) == retention # 0 /\ key[3] < now - retention

(* The two while loops that derive the keys of a range: t starts at the     *)
(* bucket of now, goes down while t > range[1], and is taken while          *)
(* t >= range[0]                                                            *)
RECURSIVE SkipAbove(_, _)
SkipAbove(t, range) == IF t > range[2] THEN SkipAbove(t - bucketSize, range) ELSE t

RECURSIVE TakeDownTo(_, _, _)
TakeDownTo(table, t, range) ==
    IF t >= range[1]
    THEN {Join(<<Prefix, table, t>>)} \cup TakeDownTo(table, t - bucketSize, range)
    ELSE {}

DerivedKeys(table, range) ==
    TakeDownTo(table, SkipAbove(getBucket(now, bucketSize), range), range)

(* The keys the scan branch keeps: not the deleted ones, and those with     *)
(* timestamp >= opts.range[0] || timestamp <= opts.range[1]                 *)
ScannedKeys(db, table, range) ==
    {k \in ScanFound(db, table) : ~Expired(k) /\ (k[3] >= range[1] \/ k[3] <= range[2])}

(* Analytics.loadBuckets(table, {scan, range}): the store, the cache and    *)
(* the buckets it returns.  The order of the buckets is left to a sort      *)
(* whose comparator subtracts the undefined hash.time, so the buckets are   *)
(* given as a set.  A range is <<range[0], range[1]>>.                      *)
LoadBuckets(table, scan, range) ==
    LET deleted == IF scan THEN {k \in ScanFound(store, table) : Expired(k)} ELSE {}
        db1 == del(store, deleted)
        keys == IF scan THEN ScannedKeys(store, table, range) ELSE DerivedKeys(table, range)
        c0 == cache
        hits == {k \in keys : CacheLive(c0, k, now, TTL)}
        loadKeys == keys \ hits
        c1 == [k \in (DOMAIN c0) \ {k \in loadKeys : k \in DOMAIN c0} |-> c0[k]]
        c2 == [k \in (DOMAIN c1) \cup {k \in loadKeys : Exists(db1, k)} |->
                 IF k \in loadKeys /\ Exists(db1, k)
                 THEN [value |-> db1[k], createdAt |-> now]
                 ELSE c1[k]]
    IN [store |-> db1,
        cache |-> c2,
        deleted |-> deleted,
        buckets |-> {[key |-> k, hash |-> c0[k].value] : k \in hits}
                    \cup {[key |-> k, hash |-> Bucket(db1, k)] : k \in loadKeys}]

(* The history of deletions after redis.del of each key of keys *)
Deleted(log, keys) ==
    [k \in (DOMAIN log) \cup keys |->
        (IF k \in DOMAIN log THEN log[k] ELSE 0) + (IF k \in keys THEN 1 ELSE 0)]

(* Analytics.loadBuckets as an operation *)
loadBuckets(table, scan, range) ==
    /\ impl = "cached"
    /\ IF ~validateTableName(table)
       THEN /\ result' = [op |-> "loadBuckets", table |-> table, scan |-> scan,
                          range |-> range, at |-> now, err |-> "InvalidTableName",
                          buckets |-> {}]
            /\ UNCHANGED <<store, cache, evicted, deletions>>
       ELSE LET r == LoadBuckets(table, scan, range)
            IN /\ result' = [op |-> "loadBuckets", table |-> table, scan |-> scan,
                             range |-> range, at |-> now, err |-> "none",
                             buckets |-> r.buckets]
               /\ store' = r.store
               /\ cache' = r.cache
               /\ evicted' = evicted \cup r.deleted
               /\ deletions' = Deleted(deletions, r.deleted)
    /\ UNCHANGED <<impl, bucketSize, retention, now, calls>>

RECURSIVE SumHash(_, _)
SumHash(hash, S) ==
    IF S = {} THEN 0
    ELSE LET f == CHOOSE f \in S : TRUE IN hash[f] + SumHash(hash, S \ {f})

(* Analytics.count(table, {range}): loadBuckets(table, {range}) and, per    *)
(* bucket, the sum of the values of the hash                                *)
count(table, range) ==
    /\ impl = "cached"
    /\ IF ~validateTableName(table)
       THEN /\ result' = [op |-> "count", table |-> table, scan |-> FALSE,
                          range |-> range, at |-> now, err |-> "InvalidTableName",
                          buckets |-> {}, counts |-> {}]
            /\ UNCHANGED <<store, cache, evicted, deletions>>
       ELSE LET r == LoadBuckets(table, FALSE, range)
            IN /\ result' = [op |-> "count", table |-> table, scan |-> FALSE,
                             range |-> range, at |-> now, err |-> "none",
                             buckets |-> r.buckets,
                             counts |-> {[time |-> b.key[3],
                                          count |-> SumHash(b.hash, DOMAIN b.hash)] :
                                         b \in r.buckets}]
               /\ store' = r.store
               /\ cache' = r.cache
               /\ evicted' = evicted \cup r.deleted
               /\ deletions' = Deleted(deletions, r.deleted)
    /\ UNCHANGED <<impl, bucketSize, retention, now, calls>>

(* Date.now() advances to t *)
Elapse(t) ==
    /\ t > now
    /\ now' = t
    /\ UNCHANGED <<impl, bucketSize, retention, calls, store, cache, result, evicted, deletions>>

(* The specification of the cached class with window "1m": one bucket may   *)
(* hold a counter when the behaviour starts.                                *)
CacheBucketSize == 1 * 1000 * 60
CacheStores == {<<>>, (Join(<<Prefix, FooBar1, 0>>) :> (MemA :> 1))}
Ranges == {<<0, 0>>, <<0, 60000>>}

InitCache ==
    /\ impl = "cached"
    /\ bucketSize = CacheBucketSize
    /\ retention \in {0, 1}
    /\ now = 0
    /\ calls = [c \in Callers |-> NoCall]
    /\ store \in CacheStores
    /\ cache = <<>>
    /\ result = NoResult
    /\ evicted = {}
    /\ deletions = <<>>

NextCache ==
    \/ \E events \in {<<EvB>>} : ingestCached(1, FooBar1, events)
    \/ \E c \in Callers : \E i \in 1..Len(calls[c].status) : Apply(c, i)
    \/ \E table \in TableNames, scan \in BOOLEAN, range \in Ranges :
          loadBuckets(table, scan, range)
    \/ \E table \in TableNames, range \in Ranges : count(table, range)
    \/ \E t \in {k * TTL + j : k \in 0..1, j \in 0..ClockSlack} : Elapse(t)

SpecCache == InitCache /\ [][NextCache]_vars

----------------------------------------------------------------------------
(* Properties of ingest *)
Slots == {x \in Callers \X (1..MaxEvents) : x[2] <= Len(calls[x[1]].events)}
EventOf(x) == calls[x[1]].events[x[2]]
StatusOf(x) == calls[x[1]].status[x[2]]
AppliedSlots == {x \in Slots : StatusOf(x) = "applied"}

(* The attributes of an event once time is removed *)
WithoutTime(event) == SelectSeq(event, LAMBDA p : p[1] # "time")

(* The start of the bucket an event's time falls into: the multiple b of   *)
(* the bucket size with b <= t < b + bucketSize                            *)
BucketOfTime(t) ==
    CHOOSE b \in 0..t : b % bucketSize = 0 /\ b <= t /\ t < b + bucketSize

(* The counter an event belongs to: <<key, attribute-combination>> *)
CounterOf(x) ==
    LET e == EventOf(x)
        t == IF HasProp(e, "time") THEN Prop(e, "time").n ELSE calls[x[1]].at
    IN <<(<<Prefix, calls[x[1]].table, BucketOfTime(t)>>), WithoutTime(e)>>

StoredCounters == {cm \in UNION {{<<k, m>> : m \in DOMAIN store[k]} : k \in DOMAIN store} : TRUE}
Counters == StoredCounters \cup {CounterOf(x) : x \in Slots}

(* C1: for every bucket size and every two ingested events with the same   *)
(* attributes once time is removed and with times in the same bucket, once *)
(* both are ingested their counter is exactly 2 above what all the other   *)
(* ingested events account for, and every other counter of every bucket    *)
(* holds exactly what the other events account for.                        *)
C1_TwinEventsCountTwo ==
    \A x \in AppliedSlots : \A y \in AppliedSlots \ {x} :
        CounterOf(x) = CounterOf(y) =>
            \A cm \in Counters :
                Score(store, cm[1], cm[2]) =
                    (IF cm = CounterOf(x) THEN 2 ELSE 0)
                    + Cardinality({z \in AppliedSlots \ {x, y} : CounterOf(z) = cm})

(* Two events with different times in one bucket counted as 2, next to a   *)
(* third event counted elsewhere.                                          *)
C1_Witness ==
    \E x \in AppliedSlots : \E y \in AppliedSlots \ {x} : \E z \in AppliedSlots \ {x, y} :
        /\ CounterOf(x) = CounterOf(y)
        /\ Prop(EventOf(x), "time") # Prop(EventOf(y), "time")
        /\ CounterOf(z) # CounterOf(x)
        /\ Score(store, CounterOf(x)[1], CounterOf(x)[2]) = 2
        /\ Score(store, CounterOf(z)[1], CounterOf(z)[2]) = 1

AllSettled == \A x \in Slots : StatusOf(x) # "inflight"
RequestOf(x) == <<calls[x[1]].reqs[x[2]].key, calls[x[1]].reqs[x[2]].member>>
Ingested == {x \in Slots : StatusOf(x) = "applied"}

(* C8: whatever the interleaving of the increments of concurrent ingest    *)
(* calls, once all of them have completed every counter equals its initial *)
(* value (0) plus the number of events ingested into it.                   *)
C8_NoLostIncrement ==
    AllSettled =>
        \A cm \in StoredCounters \cup {RequestOf(x) : x \in Ingested} :
            Score(store, cm[1], cm[2]) =
                Cardinality({x \in Ingested : RequestOf(x) = cm})

(* Two calls have each ingested an event into the same counter *)
C8_Witness ==
    /\ AllSettled
    /\ \E x \in Ingested : \E y \in Ingested :
          /\ x[1] # y[1]
          /\ RequestOf(x) = RequestOf(y)
          /\ Score(store, RequestOf(x)[1], RequestOf(x)[2]) >= 2

FailedCalls == {c \in Callers :
                  /\ calls[c].error = "none"
                  /\ Len(calls[c].events) >= 2
                  /\ \E i \in 1..Len(calls[c].status) : calls[c].status[i] = "failed"}

(* C9 as claimed: when the caller observes the failure of an ingest call,  *)
(* the increments of all its other events have been applied to the store.  *)
C9_AppliedWhenFailureObserved ==
    \A c \in FailedCalls :
        CallState(calls[c]) = "rejected" =>
            \A i \in 1..Len(calls[c].status) : calls[c].status[i] \in {"applied", "failed"}

(* C9 amended: in an ingest call where the increment of one event fails,   *)
(* the increment of every other event has been issued exactly once, is not *)
(* blocked (it is applied already or can still be applied) and is not      *)
(* rolled back (every counter holds all the applied increments).           *)
C9_OthersIssuedNotRolledBack ==
    \A c \in FailedCalls :
        /\ Len(calls[c].reqs) = Len(calls[c].events)
        /\ \A i \in 1..Len(calls[c].status) :
              /\ calls[c].status[i] \in {"inflight", "applied", "failed"}
              /\ calls[c].status[i] = "inflight" => ENABLED Apply(c, i)
              /\ calls[c].status[i] = "applied" =>
                    Score(store, calls[c].reqs[i].key, calls[c].reqs[i].member) =
                        Cardinality({x \in Ingested : RequestOf(x) = RequestOf(<<c, i>>)})

(* A call of two events: one failed, the other applied and counted *)
C9_Witness ==
    \E c \in FailedCalls : \E i \in 1..Len(calls[c].status) :
        /\ calls[c].status[i] = "applied"
        /\ Score(store, calls[c].reqs[i].key, calls[c].reqs[i].member) >= 1

(* C10 as claimed: an operation given a table name that does not match     *)
(* [A-Za-z0-9_-]+ fails with the invalid-table-name error before any store *)
(* access, so that the store holds no key of such a table; "foo bar" and   *)
(* "foo/bar" are rejected and "foo-bar_1" is accepted.                     *)
C10_InvalidTableRejected ==
    /\ validateTableName(FooBar1)
    /\ ~validateTableName(FooSpaceBar)
    /\ ~validateTableName(<<"f","o","o","/","b","a","r">>)
    /\ \A c \in Callers :
          calls[c] # NoCall /\ ~validateTableName(calls[c].table) =>
              /\ calls[c].error = "InvalidTableName"
              /\ calls[c].reqs = <<>>
    /\ \A k \in DOMAIN store : validateTableName(k[2])

----------------------------------------------------------------------------
(* Properties of the read operations *)

(* The start of the bucket of a timestamp argument *)
BucketOfArg(timestamp) == BucketOfTime(IF timestamp = NoArg THEN now ELSE timestamp)

(* The count of a member summed over the n consecutive buckets of a table   *)
(* that end at bucket b                                                     *)
RECURSIVE WindowCount(_, _, _, _)
WindowCount(table, b, n, member) ==
    IF n = 0 THEN 0
    ELSE Score(store, <<Prefix, table, b>>, member)
         + WindowCount(table, b - bucketSize, n - 1, member)

WindowMembers(table, b, n) ==
    UNION {DOMAIN Bucket(store, <<Prefix, table, b - j * bucketSize>>) : j \in 0..(n - 1)}

Min(a, b) == IF a <= b THEN a ELSE b

(* list is the ranking of one category: the min(itemCount, members of the   *)
(* category) highest-counting members as {identifier, count}, best first    *)
IsRankingOf(list, success, table, b, n, itemCount) ==
    LET members == {m \in WindowMembers(table, b, n) : Prop(m, "success") = success}
        total(m) == WindowCount(table, b, n, m)
    IN /\ Len(list) = Min(itemCount, Cardinality(members))
       /\ \E chosen \in [1..Len(list) -> members] :
             /\ \A i, j \in 1..Len(list) : i < j =>
                   chosen[i] # chosen[j] /\ total(chosen[i]) >= total(chosen[j])
             /\ \A i \in 1..Len(list) :
                   /\ list[i].identifier = Prop(chosen[i], "identifier")
                   /\ list[i].count = Num(total(chosen[i]))
                   /\ \A m \in members :
                         (\A j \in 1..Len(list) : chosen[j] # m) => total(m) <= total(chosen[i])

(* C2 as claimed: with a scan budget (5 x itemCount when none is given) of  *)
(* at least the number of members of the union, getMostAllowedBlocked       *)
(* returns for each category the min(itemCount, members of the category)    *)
(* highest-counting members as {identifier, count}, count summed over the   *)
(* timestampCount buckets ending at the bucket of timestamp.                *)
C2_RankingPerCategory ==
    (/\ result.op = "getMostAllowedBlocked"
     /\ validateTableName(result.table)
     /\ result.timestampCount >= 1
     /\ 5 * result.itemCount >=
          Cardinality(WindowMembers(result.table, BucketOfArg(result.timestamp),
                                    result.timestampCount)))
    => /\ result.err = "none"
       /\ IsRankingOf(result.allowed, Bool(TRUE), result.table,
                      BucketOfArg(result.timestamp), result.timestampCount, result.itemCount)
       /\ IsRankingOf(result.blocked, Bool(FALSE), result.table,
                      BucketOfArg(result.timestamp), result.timestampCount, result.itemCount)

(* The union the script of the last eval ranked, lowest score first *)
RankedUnion ==
    zunion(store, [j \in 1..result.ARGV[3] |->
                     <<Prefix, result.table, result.ARGV[1] - (j - 1) * result.ARGV[2]>>])

GroupMembers(group) == {group[j][2] : j \in 1..Len(group)}

(* The group a member belongs to: 1 success true, 2 success false,          *)
(* 3 success "denied", 0 none                                               *)
CategoryOf(member) ==
    CASE Prop(member, "success") = Bool(TRUE) -> 1
      [] Prop(member, "success") = Bool(FALSE) -> 2
      [] Prop(member, "success") = Str("denied") -> 3
      [] OTHER -> 0

(* C3: the scan of the ranking script examines at most checkAtMost members  *)
(* of the union; a member that is not among the checkAtMost highest-scoring *)
(* ones is in no category list; with checkAtMost = 1 every category other   *)
(* than that of the highest-scoring member is empty.                        *)
C3_ScanBudget ==
    (result.op = "evalGetMostAllowedBlockedScript" /\ ~result.reply.err) =>
        LET union == RankedUnion
            n == Len(union)
            checkAtMost == result.ARGV[5]
            examined == ((2 * n - 1) - result.reply.i) \div 2
            top == {union[p][1] : p \in {p \in 1..n : p > n - checkAtMost}}
        IN /\ examined <= checkAtMost
           /\ \A c \in 1..3 : GroupMembers(result.reply.groups[c]) \subseteq top
           /\ (checkAtMost = 1 /\ n >= 1) =>
                 \A c \in 1..3 : c # CategoryOf(union[n][1]) => result.reply.groups[c] = <<>>

(* checkAtMost = 1: the highest-scoring member fills its category, the      *)
(* category of a lower-scoring member stays empty although itemCount >= 1   *)
C3_Witness ==
    /\ result.op = "evalGetMostAllowedBlockedScript"
    /\ ~result.reply.err
    /\ result.ARGV[5] = 1
    /\ result.ARGV[4] >= 1
    /\ Len(RankedUnion) >= 2
    /\ Len(result.reply.groups[CategoryOf(RankedUnion[Len(RankedUnion)][1])]) = 1
    /\ \E p \in 1..(Len(RankedUnion) - 1) :
          /\ CategoryOf(RankedUnion[p][1]) \in 1..3
          /\ CategoryOf(RankedUnion[p][1]) # CategoryOf(RankedUnion[Len(RankedUnion)][1])
          /\ result.reply.groups[CategoryOf(RankedUnion[p][1])] = <<>>

(* The total of the counters of a bucket whose success attribute is v *)
RECURSIVE TotalOf(_, _)
TotalOf(bucket, S) ==
    IF S = {} THEN 0
    ELSE LET m == CHOOSE m \in S : TRUE IN bucket[m] + TotalOf(bucket, S \ {m})

SuccessTotal(key, v) ==
    TotalOf(Bucket(store, key), {m \in DOMAIN Bucket(store, key) : Prop(m, "success") = v})

SuccessOccurs(key, v) == \E m \in DOMAIN Bucket(store, key) : Prop(m, "success") = v

(* C6 as claimed: aggregateBucket returns the start of the bucket as time   *)
(* and, for every value of the success field that occurs among the          *)
(* counters of the bucket, the sum of the counts of the counters having     *)
(* that value (true under "true", false under "false").                     *)
C6_AggregateSumsByValue ==
    (result.op = "aggregateBucket" /\ validateTableName(result.table)) =>
        LET key == <<Prefix, result.table, BucketOfArg(result.timestamp)>>
        IN /\ result.err = "none"
           /\ result.value[1].time = BucketOfArg(result.timestamp)
           /\ SuccessOccurs(key, Bool(TRUE)) =>
                 /\ result.value[1].success.true # <<>>
                 /\ result.value[1].success.true[1][2] = SuccessTotal(key, Bool(TRUE))
           /\ SuccessOccurs(key, Bool(FALSE)) =>
                 /\ result.value[1].success.false # <<>>
                 /\ result.value[1].success.false[1][2] = SuccessTotal(key, Bool(FALSE))

(* What aggregateBuckets can return for the arguments of the last call *)
AggregateBucketsResults ==
    IF ~validateTableName(result.table)
    THEN {[err |-> "InvalidTableName", value |-> <<>>]}
    ELSE AggregateBucketsOutcomes(store, result.table, result.bucketCount, result.timestamp)

(* C7: aggregateBucketsWithPipeline returns what aggregateBuckets returns   *)
(* on the same arguments and store: as many results, the same bucket times  *)
(* in the same order, the same aggregate at each index (or the call fails   *)
(* where aggregateBuckets fails).                                           *)
C7_PipelineSameAsAggregateBuckets ==
    result.op = "aggregateBucketsWithPipeline" =>
        /\ [err |-> result.err, value |-> result.value] \in AggregateBucketsResults
        /\ result.err = "none" =>
              /\ Len(result.value) = result.bucketCount
              /\ \A j \in 1..Len(result.value) :
                    result.value[j].time =
                        BucketOfArg(result.timestamp) - (j - 1) * bucketSize

(* Three buckets aggregated through two pipelines (of 2 and of 1 command) *)
C7_Witness ==
    /\ result.op = "aggregateBucketsWithPipeline"
    /\ result.err = "none"
    /\ result.bucketCount = 3
    /\ result.maxPipelineSize = 2
    /\ Len(result.value) = 3
    /\ result.value[1].time > result.value[2].time
    /\ result.value[2].time > result.value[3].time

----------------------------------------------------------------------------
(* Properties of the cache and of retention *)
ReadOps == {"loadBuckets", "count", "query"}

(* A step in which a read of the cached class returns *)
ReadStep ==
    /\ result'.op \in ReadOps
    /\ result'.err = "none"
    /\ calls' = calls
    /\ now' = now

WasRead == result.op \in ReadOps /\ result.err = "none"

(* C4 as claimed: a read of a bucket is served from the cache only while    *)
(* the age of the entry is < TTL, a read at or after the expiry returns the *)
(* current state of the store; and two reads of a bucket made within TTL of *)
(* each other return identical snapshots.                                   *)
C4_CacheWithinTTL ==
    [][ReadStep =>
         \A b \in result'.buckets :
            /\ (b.key \notin DOMAIN cache \/ now - cache[b.key].createdAt >= TTL)
                  => b.hash = Bucket(store', b.key)
            /\ (WasRead /\ now - result.at < TTL)
                  => \A a \in result.buckets : a.key = b.key => a.hash = b.hash]_vars

(* C4 amended: a read of a bucket is served from the cache while the age of *)
(* the entry is <= TTL: it returns the snapshot taken by the fetch that     *)
(* cached the bucket, whatever the store holds now, and leaves the entry as *)
(* it is, so that consecutive reads in the life of one entry return         *)
(* identical snapshots.  A read made later, or of a bucket that is not      *)
(* cached, returns the current state of the store, and caches it if the     *)
(* bucket exists.                                                           *)
C4_CacheUpToTTL ==
    [][ReadStep =>
         \A b \in result'.buckets :
            IF b.key \in DOMAIN cache /\ now - cache[b.key].createdAt <= TTL
            THEN /\ b.hash = cache[b.key].value
                 /\ b.key \in DOMAIN cache' /\ cache'[b.key] = cache[b.key]
                 /\ (WasRead /\ cache[b.key].createdAt <= result.at)
                       => \A a \in result.buckets : a.key = b.key => a.hash = b.hash
            ELSE /\ b.hash = Bucket(store', b.key)
                 /\ IF Exists(store', b.key)
                    THEN /\ b.key \in DOMAIN cache'
                         /\ cache'[b.key] = [value |-> store'[b.key], createdAt |-> now]
                    ELSE b.key \notin DOMAIN cache']_vars

(* A read made exactly TTL after the fetch has returned the cached snapshot *)
(* although the store holds something else                                  *)
C4_Witness ==
    /\ WasRead
    /\ result.at = now
    /\ \E b \in result.buckets :
          /\ b.key \in DOMAIN cache
          /\ now - cache[b.key].createdAt = TTL
          /\ b.hash = cache[b.key].value
          /\ b.hash # Bucket(store, b.key)

(* C5 as claimed: with retention enabled, a bucket with bucketStart < now - *)
(* retention that a scanning read discovers is deleted during that read,    *)
(* and a bucket so evicted (and not written again) is in the results of     *)
(* neither that read nor any later read.                                    *)
C5_EvictedStaysAbsent ==
    [][ReadStep =>
         /\ result'.scan =>
               \A k \in ScanFound(store, result'.table) : Expired(k) => ~Exists(store', k)
         /\ \A b \in result'.buckets : b.key \in evicted' => b.hash = <<>>]_vars

----------------------------------------------------------------------------
(* Properties of the lists of the ranking script *)
(* The positions of the union the scan can examine: the checkAtMost highest *)
ScanRange(union, checkAtMost) == {p \in 1..Len(union) : p > Len(union) - checkAtMost}

(* The members of category c at the positions p down to low + 1 of the      *)
(* union, as rows <<score, member>>, highest position first                 *)
RECURSIVE CategoryDownFrom(_, _, _, _)
CategoryDownFrom(union, c, p, low) ==
    IF p < 1 \/ p <= low THEN <<>>
    ELSE (IF CategoryOf(union[p][1]) = c /\ union[p][2] > 0
          THEN << <<union[p][2], union[p][1]>> >>
          ELSE <<>>) \o CategoryDownFrom(union, c, p - 1, low)

FirstN(seq, n) == SubSeq(seq, 1, Min(n, Len(seq)))

(* C11: every category list of the ranking holds at most itemCount entries  *)
(* in descending score order; it is the first itemCount members of the      *)
(* category met by the scan, so a member of a full category is skipped      *)
(* without ending the scan, and a category with fewer than itemCount        *)
(* members in the scan range is returned shorter, without an error.         *)
C11_ListsBoundedDescending ==
    (result.op = "evalGetMostAllowedBlockedScript" /\ result.ARGV[3] >= 1) =>
        /\ ~result.reply.err
        /\ LET union == RankedUnion
               itemCount == result.ARGV[4]
               low == Len(union) - result.ARGV[5]
           IN \A c \in 1..3 :
                 LET group == result.reply.groups[c]
                 IN /\ Len(group) <= itemCount
                    /\ \A j \in 1..(Len(group) - 1) : group[j][1] >= group[j + 1][1]
                    /\ group = FirstN(CategoryDownFrom(union, c, Len(union), low), itemCount)

(* A member was skipped because its category was full, a lower-scoring      *)
(* member of another category was appended after it, and a third category   *)
(* is returned with fewer than itemCount entries                            *)
C11_Witness ==
    /\ result.op = "evalGetMostAllowedBlockedScript"
    /\ result.ARGV[3] >= 1
    /\ ~result.reply.err
    /\ result.ARGV[4] >= 1
    /\ LET union == RankedUnion
           groups == result.reply.groups
       IN \E p, q \in ScanRange(union, result.ARGV[5]) :
             /\ q < p
             /\ CategoryOf(union[p][1]) \in 1..3
             /\ CategoryOf(union[q][1]) \in 1..3
             /\ CategoryOf(union[p][1]) # CategoryOf(union[q][1])
             /\ union[p][1] \notin GroupMembers(groups[CategoryOf(union[p][1])])
             /\ Len(groups[CategoryOf(union[p][1])]) = result.ARGV[4]
             /\ union[q][1] \in GroupMembers(groups[CategoryOf(union[q][1])])
    /\ \E c \in 1..3 : Len(result.reply.groups[c]) < result.ARGV[4]

(* C12 as claimed: getMostAllowedBlocked called without checkAtMost runs    *)
(* the ranking with a scan budget of itemCount x 5: the call completes with *)
(* a ranking and the scan examines at most 5 * itemCount members.           *)
C12_DefaultScanBudget ==
    (/\ result.op = "getMostAllowedBlocked"
     /\ validateTableName(result.table)
     /\ result.timestampCount >= 1)
    => /\ result.err = "none"
       /\ ~result.reply.err
       /\ LET n == Cardinality(WindowMembers(result.table, BucketOfArg(result.timestamp),
                                             result.timestampCount))
          IN ((2 * n - 1) - result.reply.i) \div 2 <= 5 * result.itemCount

(* C13 as claimed: aggregating or ranking absent buckets is not an error:   *)
(* aggregateBucket over a bucket without counters returns the start of the  *)
(* bucket and a mapping without any property, and getMostAllowedBlocked     *)
(* over buckets that are all absent returns an empty list per category.     *)
C13_EmptyBucketNotAnError ==
    /\ (/\ result.op = "aggregateBucket"
        /\ validateTableName(result.table)
        /\ Bucket(store, <<Prefix, result.table, BucketOfArg(result.timestamp)>>) = <<>>)
       => /\ result.err = "none"
          /\ result.value[1].time = BucketOfArg(result.timestamp)
          /\ {k \in DOMAIN result.value[1].success : TRUE} = {}
    /\ (/\ result.op = "getMostAllowedBlocked"
        /\ validateTableName(result.table)
        /\ result.timestampCount >= 1
        /\ WindowMembers(result.table, BucketOfArg(result.timestamp),
                         result.timestampCount) = {})
       => /\ result.err = "none"
          /\ result.allowed = <<>>
          /\ result.blocked = <<>>

(* C14 as claimed: aggregateBuckets returns exactly bucketCount aggregates, *)
(* newest to oldest: the aggregate at index i (0-based) has time            *)
(* bucketStart(timestamp) - i * bucketSize and is the aggregate of that     *)
(* bucket, for every bucketCount >= 0.                                      *)
C14_AggregateBucketsNewestToOldest ==
    (result.op = "aggregateBuckets" /\ validateTableName(result.table)) =>
        /\ result.err = "none"
        /\ Len(result.value) = result.bucketCount
        /\ \A j \in 1..Len(result.value) :
              LET time == BucketOfArg(result.timestamp) - (j - 1) * bucketSize
                  key == <<Prefix, result.table, time>>
              IN /\ result.value[j].time = time
                 /\ SuccessOccurs(key, Bool(TRUE)) =>
                       /\ result.value[j].success.true # <<>>
                       /\ result.value[j].success.true[1][2] = SuccessTotal(key, Bool(TRUE))
                 /\ SuccessOccurs(key, Bool(FALSE)) =>
                       /\ result.value[j].success.false # <<>>
                       /\ result.value[j].success.false[1][2] = SuccessTotal(key, Bool(FALSE))

----------------------------------------------------------------------------
(* Properties of the stored counts and of deletion *)
KeysOf(db1, db2) == (DOMAIN db1) \cup (DOMAIN db2)
FieldsOf(db1, db2, key) == (DOMAIN Bucket(db1, key)) \cup (DOMAIN Bucket(db2, key))

(* C15: from one state to the next the stored count of a (bucket,           *)
(* serialized attributes) pair never decreases, except in a step in which   *)
(* the whole bucket is evicted by retention (the bucket is expired and is   *)
(* gone from the store).                                                    *)
C15_CountsNeverDecrease ==
    [][\A key \in KeysOf(store, store') : \A field \in FieldsOf(store, store', key) :
          \/ Score(store', key, field) >= Score(store, key, field)
          \/ /\ Expired(key)
             /\ ~Exists(store', key)]_vars

(* A bucket has been evicted, and a counter has been incremented and holds  *)
(* its count                                                                *)
C15_Witness ==
    /\ evicted # {}
    /\ \E x \in AppliedSlots :
          /\ RequestOf(x)[1] \notin evicted
          /\ Score(store, RequestOf(x)[1], RequestOf(x)[2]) >= 1

(* The keys deleted in a step *)
DeletedKeys == {key \in DOMAIN store : ~Exists(store', key)}

(* C16 as claimed: a bucket is deleted only by eviction and only when       *)
(* expired: no step deletes a bucket with bucketStart >= now - retention,   *)
(* none deletes any bucket when retention is disabled, and a given bucket   *)
(* is deleted at most once.                                                 *)
C16_DeletedOnlyExpiredOnce ==
    [][\A key \in DeletedKeys :
          /\ retention # 0
          /\ key[3] < now - retention
          /\ key \notin DOMAIN deletions]_vars

(* C16 amended: a bucket is deleted only by the eviction of a scanning      *)
(* read and only when expired, never when retention is disabled; and it is  *)
(* deleted at most once each time it is created: apart from the first       *)
(* deletion, every deletion of a bucket follows an ingest that wrote the    *)
(* bucket again.                                                            *)
C16_DeletedOnlyExpired ==
    [][/\ \A key \in DeletedKeys :
             /\ retention # 0
             /\ key[3] < now - retention
             /\ result'.op = "loadBuckets" /\ result'.scan
             /\ key \in DOMAIN deletions =>
                   \E x \in AppliedSlots : RequestOf(x)[1] = key
       /\ \A key \in DOMAIN deletions' :
             deletions'[key] <= 1 + Cardinality({x \in AppliedSlots : RequestOf(x)[1] = key})]_vars

(* A bucket was evicted, written again by ingest, and evicted again *)
C16_Witness ==
    \E key \in DOMAIN deletions :
        /\ deletions[key] = 2
        /\ key \in evicted
        /\ \E x \in AppliedSlots : RequestOf(x)[1] = key

(* C17 as claimed: with a retention period, buckets are evicted when they   *)
(* are read and never when they are written: when a read of the public      *)
(* interface (count) over a table has completed, the store holds no bucket  *)
(* of that table older than the retention period; and an ingest call issues *)
(* one increment per event and deletes nothing.                             *)
C17_EvictedWhenRead ==
    [][/\ (ReadStep /\ result'.op = "count" /\ retention # 0) =>
             \A key \in ScanFound(store', result'.table) : ~(key[3] < now - retention)
       /\ \A c \in Callers :
             (calls[c] = NoCall /\ calls'[c] # NoCall) =>
                 /\ Len(calls'[c].reqs) <= Len(calls'[c].events)
                 /\ DeletedKeys = {}]_vars

----------------------------------------------------------------------------
(* Construction: the constructor and parseWindow.  A value of config.window *)
(* or config.retention is a number, a string (the sequence of its           *)
(* characters) or undefined.                                                *)
WNum(n) == [t |-> "number", n |-> n, c |-> <<>>]
WStr(chars) == [t |-> "string", n |-> 0, c |-> chars]
WUndefined == [t |-> "undefined", n |-> 0, c |-> <<>>]

DigitValue == [d \in Digits |->
                 CASE d = "0" -> 0 [] d = "1" -> 1 [] d = "2" -> 2 [] d = "3" -> 3
                   [] d = "4" -> 4 [] d = "5" -> 5 [] d = "6" -> 6 [] d = "7" -> 7
                   [] d = "8" -> 8 [] d = "9" -> 9]

(* parseInt(valueStr) of a string of decimal digits *)
RECURSIVE parseInt(_)
parseInt(valueStr) ==
    IF valueStr = <<>> THEN 0
    ELSE parseInt(SubSeq(valueStr, 1, Len(valueStr) - 1)) * 10
         + DigitValue[valueStr[Len(valueStr)]]


(* /^(\d+)([smhd])$/.test(window) *)
WindowRegexTest(chars) ==
    /\ Len(chars) >= 2
    /\ \A j \in 1..(Len(chars) - 1) : chars[j] \in Digits
    /\ chars[Len(chars)] \in {"s", "m", "h", "d"}

NumberWindowInvalidStrict(n) == n < 0

(* if (window <= 0) throw *)
NumberWindowInvalid(n) == n <= 0

InvalidWindow == [err |-> TRUE, value |-> 0]

(* Analytics.parseWindow(window): the milliseconds, or the thrown error *)
parseWindow(window) ==
    IF window.t = "number"
    THEN IF NumberWindowInvalid(window.n) THEN InvalidWindow
         ELSE [err |-> FALSE, value |-> window.n]
    ELSE IF window.t # "string" \/ ~WindowRegexTest(window.c) THEN InvalidWindow
    ELSE LET value == parseInt(SubSeq(window.c, 1, Len(window.c) - 1))
             unit == window.c[Len(window.c)]
         IN [err |-> FALSE,
             value |-> CASE unit = "s" -> value * 1000
                         [] unit = "m" -> value * 1000 * 60
                         [] unit = "h" -> value * 1000 * 60 * 60
                         [] unit = "d" -> value * 1000 * 60 * 60 * 24]

(* The truthiness of a value: 0, "" and undefined are falsy *)
Truthy(v) ==
    \/ v.t = "number" /\ v.n # 0
    \/ v.t = "string" /\ v.c # <<>>


(* bucketSize of an instance whose constructor has not completed *)
NotConstructed == 0 - 1

(* new Analytics({window, retention}): this.bucketSize =                    *)
(* this.parseWindow(config.window); this.retention = config.retention ?     *)
(* this.parseWindow(config.retention) : undefined.  The sdk class has no    *)
(* retention.  A throw of parseWindow leaves no instance.  A behaviour       *)
(* constructs once.                                                         *)
construct(window, retentionConfig) ==
    /\ bucketSize = NotConstructed
    /\ result = NoResult
    /\ LET w == parseWindow(window)
           r == IF w.err \/ impl = "sdk" \/ ~Truthy(retentionConfig) THEN [err |-> FALSE, value |-> 0]
                ELSE parseWindow(retentionConfig)
           parsed == {<<window, w>>} \cup
                     (IF w.err \/ impl = "sdk" \/ ~Truthy(retentionConfig) THEN {}
                      ELSE {<<retentionConfig, r>>})
       IN IF w.err \/ r.err
          THEN /\ result' = [op |-> "constructor", window |-> window,
                             retention |-> retentionConfig, parsed |-> parsed,
                             err |-> "InvalidWindow"]
               /\ UNCHANGED <<bucketSize, retention>>
          ELSE /\ result' = [op |-> "constructor", window |-> window,
                             retention |-> retentionConfig, parsed |-> parsed,
                             err |-> "none"]
               /\ bucketSize' = w.value
               /\ retention' = r.value
    /\ UNCHANGED <<impl, now, calls, store, cache, evicted, deletions>>

(* The specification of construction: an instance is constructed from a     *)
(* configuration and, once constructed, a scanning read may evict.          *)
(* Window strings of up to 3 characters: up to 2 digits, so that the        *)
(* milliseconds of "11d" stay within the integers of the checker            *)
Windows ==
    {WNum(n) : n \in {0 - 1, 0, 1, 2}}
    \cup {WStr(chars) :
            chars \in UNION {[1..n -> {"0", "1", "s", "m", "h", "d", "x"}] : n \in {0, 1, 2, 3}}}
Configs == (Windows \X {WUndefined})
           \cup ({WNum(1), WStr(<<"1", "m">>)}
                 \X {WUndefined, WNum(0 - 1), WNum(0), WNum(1),
                     WStr(<<"0", "s">>), WStr(<<"1", "s">>), WStr(<<"x">>)})

InitConfig ==
    /\ impl \in Impls
    /\ bucketSize = NotConstructed
    /\ retention = 0
    /\ now = 0
    /\ calls = [c \in Callers |-> NoCall]
    /\ store \in CacheStores
    /\ cache = <<>>
    /\ result = NoResult
    /\ evicted = {}
    /\ deletions = <<>>

NextConfig ==
    \/ \E config \in Configs : construct(config[1], config[2])
    \/ bucketSize # NotConstructed /\ loadBuckets(FooBar1, TRUE, <<0, 0>>)
    \/ \E t \in {2} : Elapse(t)

SpecConfig == InitConfig /\ [][NextConfig]_vars

----------------------------------------------------------------------------
(* Properties of construction *)
(* A step in which the constructor returns or throws *)
ConstructStep == result = NoResult /\ result'.op = "constructor"

(* A retention that is documented to disable retention: 0, negative or      *)
(* undefined                                                                *)
DisablesRetention(v) == v.t = "undefined" \/ (v.t = "number" /\ v.n <= 0)

(* C18 as claimed: constructing Analytics with a retention of 0, of a       *)
(* negative number or undefined (and a valid window) succeeds and disables  *)
(* retention: the instance is created without error and no step of it ever  *)
(* deletes a bucket.                                                        *)
C18_NonPositiveRetentionDisables ==
    [][/\ (/\ ConstructStep
           /\ ~parseWindow(result'.window).err
           /\ DisablesRetention(result'.retention))
          => /\ result'.err = "none"
             /\ retention' = 0
       /\ (bucketSize # NotConstructed /\ retention = 0) => DeletedKeys = {}]_vars

(* The value of the decimal numeral chars[1..n], by the weight of each digit *)
RECURSIVE PowerOfTen(_)
PowerOfTen(k) == IF k = 0 THEN 1 ELSE 10 * PowerOfTen(k - 1)

RECURSIVE DecimalFrom(_, _, _)
DecimalFrom(chars, n, j) ==
    IF j > n THEN 0
    ELSE DigitValue[chars[j]] * PowerOfTen(n - j) + DecimalFrom(chars, n, j + 1)

DecimalOf(chars, n) == DecimalFrom(chars, n, 1)

UnitMillis(unit) ==
    CASE unit = "s" -> 1000 [] unit = "m" -> 60000
      [] unit = "h" -> 3600000 [] unit = "d" -> 86400000

(* chars is {n}{s|m|h|d}: one or more decimal digits and a unit *)
IsWindowString(chars) ==
    /\ Len(chars) >= 2
    /\ chars[Len(chars)] \in {"s", "m", "h", "d"}
    /\ \A j \in 1..(Len(chars) - 1) :
          chars[j] \in {"0", "1", "2", "3", "4", "5", "6", "7", "8", "9"}

(* C20: for a window string {n}{s|m|h|d} parseWindow yields n * 1000,       *)
(* n * 60000, n * 3600000 and n * 86400000 milliseconds; a numeric window   *)
(* > 0 is returned unchanged; a numeric window <= 0 and every other string  *)
(* fail with the invalid-window error, which the constructor throws on.     *)
C20_ParseWindowValues ==
    result.op = "constructor" =>
        /\ \A p \in result.parsed :
              LET window == p[1]
                  out == p[2]
              IN /\ (window.t = "number" /\ window.n > 0) =>
                       ~out.err /\ out.value = window.n
                 /\ (window.t = "number" /\ window.n <= 0) => out.err
                 /\ window.t = "string" =>
                       IF IsWindowString(window.c)
                       THEN /\ ~out.err
                            /\ out.value = DecimalOf(window.c, Len(window.c) - 1)
                                              * UnitMillis(window.c[Len(window.c)])
                       ELSE out.err
        /\ (result.err = "InvalidWindow") <=> (\E p \in result.parsed : p[2].err)
        /\ result.err = "none" =>
              \E p \in result.parsed : p[1] = result.window /\ bucketSize = p[2].value

(* The window "10m" was parsed to 600000 ms and is the bucket size *)
C20_Witness ==
    /\ result.op = "constructor"
    /\ result.err = "none"
    /\ result.window = WStr(<<"1", "0", "m">>)
    /\ bucketSize = 600000

----------------------------------------------------------------------------
(* The specification of ingest with events that carry the same attributes   *)
(* in different key orders                                                  *)
OrderEvents ==
    {<< IdA, <<"success", Bool(TRUE)>> >>,
     << <<"success", Bool(TRUE)>>, IdA >>,
     << <<"success", Bool(TRUE)>>, <<"time", Num(0)>>, IdA >>}
OrderBatches == UNION {[1..n -> OrderEvents] : n \in {1, 2}}

NextOrder ==
    \/ \E c \in Callers, events \in OrderBatches : ingest(c, FooBar1, events)
    \/ \E c \in Callers, events \in OrderBatches : ingestCached(c, FooBar1, events)
    \/ \E c \in Callers, events \in OrderBatches : ingestSdk(c, FooBar1, events)
    \/ \E c \in Callers : \E i \in 1..Len(calls[c].status) : Apply(c, i)

SpecOrder == Init /\ [][NextOrder]_vars

(* The attribute name/value pairs of an event, time left out *)
AttributesOf(event) == {event[j] : j \in {j \in 1..Len(event) : event[j][1] # "time"}}

(* The bucket the event of a slot falls into *)
BucketOfSlot(x) ==
    BucketOfTime(IF HasProp(EventOf(x), "time") THEN Prop(EventOf(x), "time").n
                 ELSE calls[x[1]].at)

(* C19 as claimed: two events that carry the same set of attribute          *)
(* name/value pairs, in whatever key order, and fall into the same bucket   *)
(* increment the same counter.                                              *)
C19_KeyOrderIrrelevant ==
    \A x \in AppliedSlots : \A y \in AppliedSlots :
        (/\ AttributesOf(EventOf(x)) = AttributesOf(EventOf(y))
         /\ calls[x[1]].table = calls[y[1]].table
         /\ BucketOfSlot(x) = BucketOfSlot(y))
        => RequestOf(x) = RequestOf(y)

----------------------------------------------------------------------------
(* C21 as claimed: every window accepted at construction, numeric or        *)
(* string, resolves to a strictly positive bucket duration: no successfully *)
(* constructed instance has bucketSize <= 0 (the string "0s" is rejected    *)
(* like the number 0).                                                      *)
C21_PositiveBucketSize ==
    (result.op = "constructor" /\ result.err = "none") => bucketSize > 0

----------------------------------------------------------------------------
(* Keys as text.  The store of this model holds a key as its components    *)
(* <<prefix, table, bucket>>; here the text of a key is built and parsed   *)
(* as the code does it, a string being the sequence of its characters.     *)
PrefixText == <<"@","u","p","s","t","a","s","h","/","a","n","a","l","y","t","i","c","s">>

(* String(n) of an integer n: its decimal numeral, "-" before a negative   *)
NumberToString(n) ==
    LET DigitChar == <<"0", "1", "2", "3", "4", "5", "6", "7", "8", "9">>
        RECURSIVE NatToString(_)
        NatToString(m) ==
            IF m < 10 THEN <<DigitChar[m + 1]>>
            ELSE NatToString(m \div 10) \o <<DigitChar[(m % 10) + 1]>>
    IN IF n < 0 THEN <<"-">> \o NatToString(0 - n) ELSE NatToString(n)

(* parts.join(":") *)
RECURSIVE JoinText(_)
JoinText(parts) ==
    IF parts = <<>> THEN <<>>
    ELSE IF Len(parts) = 1 THEN parts[1]
    ELSE parts[1] \o <<":">> \o JoinText(Tail(parts))

(* text.split(":") *)
Split(text) ==
    LET RECURSIVE SplitFrom(_, _)
        SplitFrom(j, piece) ==
            IF j > Len(text) THEN <<piece>>
            ELSE IF text[j] = ":" THEN <<piece>> \o SplitFrom(j + 1, <<>>)
            ELSE SplitFrom(j + 1, Append(piece, text[j]))
    IN SplitFrom(1, <<>>)

(* parseInt(text) of a text without leading blanks or a 0x prefix: an       *)
(* optional sign and the longest run of decimal digits; NaN without a digit *)
parseIntText(text) ==
    LET RECURSIVE LeadingDigits(_)
        LeadingDigits(t) ==
            IF t = <<>> \/ t[1] \notin Digits THEN <<>>
            ELSE <<t[1]>> \o LeadingDigits(Tail(t))
        signed == text # <<>> /\ text[1] \in {"-", "+"}
        digits == LeadingDigits(IF signed THEN Tail(text) ELSE text)
    IN IF digits = <<>> THEN NaN
       ELSE Num((IF signed /\ text[1] = "-" THEN 0 - 1 ELSE 1) * parseInt(digits))

(* Key.toString(): [this.prefix, this.table, this.bucket].join(":") *)
KeyToString(key) == JoinText(<<key.prefix, key.table, NumberToString(key.bucket)>>)

(* Key.fromString(key): const [prefix, table, bucket] = key.split(":");     *)
(* new Key(prefix, table, parseInt(bucket)).  A text made by toString has   *)
(* at least three pieces.                                                   *)
KeyFromString(text) ==
    LET pieces == Split(text)
    IN [prefix |-> pieces[1], table |-> pieces[2], bucket |-> parseIntText(pieces[3])]

ScriptKeysTextAscending(prefix, first_timestamp, increment, num_timestamps) ==
    [i \in 1..num_timestamps |->
        prefix \o <<":">> \o NumberToString(first_timestamp + (i - 1) * increment)]

(* The keys of the ranking scripts as text: prefix .. ":" .. timestamp with *)
(* timestamp = first_timestamp - (i - 1) * increment.  Lua writes a number  *)
(* with %.14g, which for an integer below 10^14 is its decimal numeral.     *)
ScriptKeysText(prefix, first_timestamp, increment, num_timestamps) ==
    [i \in 1..num_timestamps |->
        prefix \o <<":">> \o NumberToString(first_timestamp - (i - 1) * increment)]

(* Analytics.getBucket(time) called on the instance *)
getBucketOf(time) ==
    /\ result = NoResult
    /\ result' = [op |-> "getBucket", time |-> time, at |-> now,
                  value |-> getBucket(OrNow(time), bucketSize)]
    /\ UNCHANGED <<impl, bucketSize, retention, now, calls, store, cache, evicted, deletions>>

(* new Key(prefix, table, bucket).toString() and Key.fromString of the text *)
keyRoundTrip(prefix, table, time) ==
    /\ result = NoResult
    /\ LET key == [prefix |-> prefix, table |-> table,
                   bucket |-> getBucket(OrNow(time), bucketSize)]
       IN result' = [op |-> "Key", key |-> key, text |-> KeyToString(key),
                     parsed |-> KeyFromString(KeyToString(key))]
    /\ UNCHANGED <<impl, bucketSize, retention, now, calls, store, cache, evicted, deletions>>

(* The text of the key ingest writes for an event of the given time, of the *)
(* key aggregateBucket reads for timestamp, and of the keys a ranking       *)
(* script derives from the arguments of its wrapper                         *)
deriveKeys(table, time, timestamp, timestampCount) ==
    /\ result = NoResult
    /\ validateTableName(table)
    /\ result' = [op |-> "keys", table |-> table, time |-> time, at |-> now,
                  timestamp |-> timestamp, timestampCount |-> timestampCount,
                  ingest |-> JoinText(<<PrefixText, table,
                                        NumberToString(getBucket(OrNow(time), bucketSize))>>),
                  aggregateBucket |-> JoinText(<<PrefixText, table,
                                        NumberToString(getBucket(OrNow(timestamp), bucketSize))>>),
                  script |-> ScriptKeysText(JoinText(<<PrefixText, table>>),
                                            getBucket(OrNow(timestamp), bucketSize),
                                            bucketSize, timestampCount)]
    /\ UNCHANGED <<impl, bucketSize, retention, now, calls, store, cache, evicted, deletions>>

(* The specification of buckets and keys: an instance of any positive       *)
(* bucket size computes a bucket or keys for any time, once per behaviour.  *)
KeyTimes == (0..MaxTime) \cup {0 - t : t \in 2..MaxTime} \cup {NoArg}

InitKey ==
    /\ impl = "core"
    /\ bucketSize \in 1..MaxSize
    /\ retention = 0
    /\ now \in 0..2
    /\ calls = [c \in Callers |-> NoCall]
    /\ store = <<>>
    /\ cache = <<>>
    /\ result = NoResult
    /\ evicted = {}
    /\ deletions = <<>>

NextKey ==
    \/ \E time \in KeyTimes : getBucketOf(time)
    \/ \E prefix \in {PrefixText, <<"a">>, <<"a", ":", "b">>},
          table \in {FooBar1, <<"t">>, <<"1", "2">>},
          time \in KeyTimes :
          keyRoundTrip(prefix, table, time)
    \/ \E table \in {FooBar1, <<"t">>, <<"1", "2">>},
          time \in KeyTimes, timestamp \in KeyTimes,
          timestampCount \in 0..MaxTimestampCount :
          deriveKeys(table, time, timestamp, timestampCount)

SpecKey == InitKey /\ [][NextKey]_vars

(* C22: for every time t and positive bucket size s, bucketStart(t) is a    *)
(* multiple of s, bucketStart(t) <= t < bucketStart(t) + s, and             *)
(* bucketStart(bucketStart(t)) = bucketStart(t).                            *)
C22_BucketStartFloor ==
    result.op = "getBucket" =>
        LET t == IF result.time = NoArg THEN result.at ELSE result.time
            b == result.value
        IN /\ \E q \in (0 - MaxTime - 2)..(MaxTime + 2) : b = q * bucketSize
           /\ b <= t
           /\ t < b + bucketSize
           /\ getBucket(b, bucketSize) = b

(* The bucket of a negative time that is not a bucket start, with a bucket  *)
(* size above 1                                                             *)
C22_Witness ==
    /\ result.op = "getBucket"
    /\ bucketSize > 1
    /\ result.time < 0 - 1
    /\ result.value < result.time
    /\ getBucket(result.value, bucketSize) = result.value

(* C23 as claimed: for every prefix (the default and any override), every   *)
(* valid table name and every bucket start, Key.fromString of the text of   *)
(* new Key(prefix, table, bucket) has the same prefix, table and bucket.    *)
C23_KeyRoundTrip ==
    (result.op = "Key" /\ validateTableName(result.key.table)) =>
        /\ result.parsed.prefix = result.key.prefix
        /\ result.parsed.table = result.key.table
        /\ result.parsed.bucket = Num(result.key.bucket)

(* The bucket starts of the window of a ranking *)
WindowBuckets(timestamp, at, timestampCount) ==
    {getBucket(IF timestamp = NoArg THEN at ELSE timestamp, bucketSize) - j * bucketSize :
        j \in 0..(timestampCount - 1)}

(* The text prefix:table:bucketStart *)
LayoutText(table, bucketStart) ==
    PrefixText \o <<":">> \o table \o <<":">> \o NumberToString(bucketStart)

(* C26: every component uses the key layout prefix:table:bucketStartMs: the *)
(* keys the ranking scripts read are exactly the keys ingest writes for the *)
(* reference bucket and the (timestampCount - 1) buckets before it, the key *)
(* aggregateBucket reads is the key ingest writes for that bucket, so the   *)
(* counter of an event is under a key that is read exactly when its bucket  *)
(* is in the window.                                                        *)
C26_SameKeyLayout ==
    result.op = "keys" =>
        LET window == WindowBuckets(result.timestamp, result.at, result.timestampCount)
            eventBucket == getBucket(IF result.time = NoArg THEN result.at ELSE result.time,
                                     bucketSize)
            read == {result.script[i] : i \in 1..Len(result.script)}
        IN /\ result.ingest = LayoutText(result.table, eventBucket)
           /\ Len(result.script) = result.timestampCount
           /\ read = {LayoutText(result.table, b) : b \in window}
           /\ (result.ingest \in read) <=> (eventBucket \in window)
           /\ (result.ingest = result.aggregateBucket) <=>
                 (eventBucket = getBucket(IF result.timestamp = NoArg THEN result.at
                                          ELSE result.timestamp, bucketSize))

(* An event was written under the key of the second bucket of the window *)
C26_Witness ==
    /\ result.op = "keys"
    /\ result.timestampCount = 2
    /\ result.ingest = result.script[2]
    /\ result.ingest # result.aggregateBucket
    /\ result.time # result.timestamp

----------------------------------------------------------------------------
(* The ranking under concurrent ingestion.  redis.eval sends one command;   *)
(* the store runs the script of an EVAL as one command, between the         *)
(* commands of other clients.                                               *)

(* getMostAllowedBlocked up to its await: the EVAL is sent with KEYS =      *)
(* [prefix:table] and ARGV = [bucket, bucketSize, timestampCount,           *)
(* itemCount], followed by checkAtMost when the caller of the script gives  *)
(* one.  sentStore is history: the store when the command was sent.         *)
evalSend(table, timestampCount, itemCount, checkAtMost) ==
    /\ impl = "core"
    /\ result = NoResult
    /\ validateTableName(table)
    /\ result' = [op |-> "eval", phase |-> "sent", table |-> table,
                  ARGV |-> <<getBucket(now, bucketSize), bucketSize, timestampCount, itemCount>>
                           \o (IF checkAtMost = NoArg THEN <<>> ELSE <<checkAtMost>>),
                  sentStore |-> store, reply |-> ScriptError]
    /\ UNCHANGED <<impl, bucketSize, retention, now, calls, store, cache, evicted, deletions>>

(* The store runs the script of the EVAL that was sent and replies *)
evalRun ==
    /\ result.op = "eval"
    /\ result.phase = "sent"
    /\ result' = [result EXCEPT
                    !.phase = "done",
                    !.reply = getMostAllowedBlockedScript(store, Join(<<Prefix, result.table>>),
                                                          result.ARGV)]
    /\ UNCHANGED <<impl, bucketSize, retention, now, calls, store, cache, evicted, deletions>>

(* The specification of a ranking sent while two callers ingest: events of  *)
(* the buckets 0 and 1 with bucket size 1 at time 1.                        *)

InitAtomic ==
    /\ impl = "core"
    /\ bucketSize = 1
    /\ retention = 0
    /\ now = 1
    /\ calls = [c \in Callers |-> NoCall]
    /\ store = <<>>
    /\ cache = <<>>
    /\ result = NoResult
    /\ evicted = {}
    /\ deletions = <<>>

NextAtomic ==
    \/ \E c \in Callers, events \in {<<EvA0>>, <<EvA1>>, <<EvB>>, <<EvA0, EvB>>} : ingest(c, FooBar1, events)
    \/ \E c \in Callers : \E i \in 1..Len(calls[c].status) : Apply(c, i)
    \/ \E timestampCount \in {1, MaxTimestampCount}, itemCount \in {1, MaxItemCount},
          checkAtMost \in {NoArg, 1, MaxCheckAtMost} :
          evalSend(FooBar1, timestampCount, itemCount, checkAtMost)
    \/ evalRun

SpecAtomic == InitAtomic /\ [][NextAtomic]_vars

(* The ranking of one store state: the union of the window by count, and    *)
(* per category the first itemCount members among the checkAtMost highest   *)
RankingOfStore(table, ARGV) ==
    LET union == SortEntries({<<m, WindowCount(table, ARGV[1], ARGV[3], m)>> :
                                m \in WindowMembers(table, ARGV[1], ARGV[3])})
    IN [c \in 1..3 |->
          FirstN(CategoryDownFrom(union, c, Len(union), Len(union) - ARGV[5]), ARGV[4])]

(* C24: the union and the selection of a ranking are one atomic store       *)
(* operation: in every interleaving with concurrent ingests the reply is    *)
(* the ranking of the single store state in which the script ran, a state   *)
(* between the start and the end of the call, never a mix of buckets        *)
(* observed at different times; the script writes nothing.                  *)
C24_RankingOfOneStoreState ==
    [][(result.op = "eval" /\ result.phase = "sent" /\ result'.phase = "done") =>
          /\ store' = store
          /\ IF Len(result.ARGV) < 5
             THEN result'.reply.err
             ELSE /\ ~result'.reply.err
                  /\ result'.reply.groups = RankingOfStore(result.table, result.ARGV)]_vars

(* A ranking over two buckets that was sent when the store was empty, ran   *)
(* after increments of both buckets, and replied while another increment    *)
(* was still in flight                                                      *)
C24_Witness ==
    /\ result.op = "eval"
    /\ result.phase = "done"
    /\ ~result.reply.err
    /\ result.sentStore = <<>>
    /\ result.ARGV[3] = 2
    /\ \E e \in {result.reply.groups[1][j] : j \in 1..Len(result.reply.groups[1])} : e[1] = 2
    /\ \E x \in Slots : StatusOf(x) = "inflight"

----------------------------------------------------------------------------
(* aggregateBucketsWithPipeline step by step: the batches it dispatches and *)
(* their completion.                                                        *)

(* Every batch waiting for the one before it *)
DispatchedSequential(batches) ==
    [k \in 1..Len(batches) |-> IF k = 1 THEN "inflight" ELSE "waiting"]

(* pipelinePromises.push(pipeline.exec()) inside the for loop: exec is      *)
(* called, not awaited, so the request of every batch is sent when the      *)
(* batch is full or the loop ends                                           *)
Dispatched(batches) == [k \in 1..Len(batches) |-> "inflight"]

(* aggregateBucketsWithPipeline up to await Promise.all(pipelinePromises) *)
pipelineDispatch(table, bucketCount, timestamp, maxPipelineSize) ==
    /\ impl = "core"
    /\ result = NoResult
    /\ IF ~validateTableName(table)
       THEN result' = [op |-> "pipeline", table |-> table, bucketCount |-> bucketCount,
                       timestamp |-> timestamp, maxPipelineSize |-> maxPipelineSize,
                       err |-> "InvalidTableName", batches |-> <<>>, status |-> <<>>,
                       settled |-> "rejected"]
       ELSE LET st == PipelineLoop(table, bucketCount,
                         IF maxPipelineSize = NoArg THEN DefaultMaxPipelineSize
                         ELSE maxPipelineSize, 1,
                         [bucket |-> getBucket(OrNow(timestamp), bucketSize), buckets |-> <<>>,
                          batches |-> <<>>, pipeline |-> <<>>])
            IN result' = [op |-> "pipeline", table |-> table, bucketCount |-> bucketCount,
                          timestamp |-> timestamp, maxPipelineSize |-> maxPipelineSize,
                          err |-> "none", batches |-> st.batches,
                          status |-> Dispatched(st.batches), settled |-> "pending"]
    /\ UNCHANGED <<impl, bucketSize, retention, now, calls, store, cache, evicted, deletions>>

(* The store answers the request of batch k: exec resolves with the replies *)
(* of the commands, or rejects if the script of one of them failed          *)
execBatch(k) ==
    /\ result.op = "pipeline"
    /\ k \in 1..Len(result.status)
    /\ result.status[k] = "inflight"
    /\ result' = [result EXCEPT !.status[k] =
                    IF \E j \in 1..Len(result.batches[k]) :
                          aggregateHourScript(store, result.batches[k][j], <<>>).err
                    THEN "failed" ELSE "done"]
    /\ UNCHANGED <<impl, bucketSize, retention, now, calls, store, cache, evicted, deletions>>

(* The request of batch k fails (store unavailable, transport error) *)
failBatch(k) ==
    /\ result.op = "pipeline"
    /\ k \in 1..Len(result.status)
    /\ result.status[k] = "inflight"
    /\ result' = [result EXCEPT !.status[k] = "failed"]
    /\ UNCHANGED <<impl, bucketSize, retention, now, calls, store, cache, evicted, deletions>>

(* await Promise.all(pipelinePromises): rejects once a batch is rejected,   *)
(* resolves once every batch is resolved                                    *)
pipelineSettle ==
    /\ result.op = "pipeline"
    /\ result.settled = "pending"
    /\ \/ \E k \in 1..Len(result.status) : result.status[k] = "failed"
       \/ \A k \in 1..Len(result.status) : result.status[k] = "done"
    /\ result' = [result EXCEPT !.settled =
                    IF \E k \in 1..Len(result.status) : result.status[k] = "failed"
                    THEN "rejected" ELSE "resolved"]
    /\ UNCHANGED <<impl, bucketSize, retention, now, calls, store, cache, evicted, deletions>>

(* The specification of the pipelined aggregation over a store that holds   *)
(* nothing or one counter in the newest bucket.                             *)
InitPipeline ==
    /\ impl = "core"
    /\ bucketSize = ReadBucketSize
    /\ retention = 0
    /\ now = ReadNow
    /\ calls = [c \in Callers |-> NoCall]
    /\ store \in {<<>>, (NewBucket :> (MemA :> 1))}
    /\ cache = <<>>
    /\ result = NoResult
    /\ evicted = {}
    /\ deletions = <<>>

NextPipeline ==
    \/ \E table \in TableNames, bucketCount \in 0..MaxBucketCount, timestamp \in ReadTimestamps,
          maxPipelineSize \in 1..MaxPipelineSize :
          pipelineDispatch(table, bucketCount, timestamp, maxPipelineSize)
    \/ \E bucketCount \in (0..MaxBucketCount)
                          \cup {DefaultMaxPipelineSize, DefaultMaxPipelineSize + 1},
          timestamp \in ReadTimestamps :
          pipelineDispatch(FooBar1, bucketCount, timestamp, NoArg)
    \/ \E k \in 1..(DefaultMaxPipelineSize + 1) : execBatch(k)
    \/ \E k \in 1..(DefaultMaxPipelineSize + 1) : failBatch(k)
    \/ pipelineSettle

SpecPipeline == InitPipeline /\ [][NextPipeline]_vars

(* C25: aggregateBucketsWithPipeline dispatches batches that each hold at   *)
(* least 1 and at most maxPipelineSize operations (48 when maxPipelineSize  *)
(* is omitted); over all batches each of the bucketCount requested buckets  *)
(* is submitted exactly once; no batch is dispatched when bucketCount is 0. *)
C25_BatchSizes ==
    (result.op = "pipeline" /\ result.err = "none") =>
        LET size == IF result.maxPipelineSize = NoArg THEN 48 ELSE result.maxPipelineSize
            submitted == Flat(result.batches)
        IN /\ \A k \in 1..Len(result.batches) :
                 Len(result.batches[k]) >= 1 /\ Len(result.batches[k]) <= size
           /\ Len(result.status) = Len(result.batches)
           /\ Len(submitted) = result.bucketCount
           /\ \A j \in 1..result.bucketCount :
                 submitted[j] = <<Prefix, result.table,
                                  BucketOfArg(result.timestamp) - (j - 1) * bucketSize>>
           /\ result.bucketCount = 0 => result.batches = <<>>

(* 49 buckets with the default size: a batch of 48 and a batch of 1 *)
C25_Witness ==
    /\ result.op = "pipeline"
    /\ result.maxPipelineSize = NoArg
    /\ result.bucketCount = 49
    /\ Len(result.batches) = 2
    /\ Len(result.batches[1]) = 48
    /\ Len(result.batches[2]) = 1

(* C27 as claimed: the batches execute sequentially: batch k+1 is not       *)
(* dispatched to the store before batch k has completed.                    *)
C27_BatchesSequential ==
    result.op = "pipeline" =>
        \A k \in 1..(Len(result.status) - 1) :
            result.status[k + 1] # "waiting" => result.status[k] \in {"done", "failed"}

(* C27 amended: every batch is dispatched when the loop has filled it,      *)
(* without waiting for the batches before it, so all batches are in flight  *)
(* together and complete in any order; the operations of one batch are one  *)
(* request, which a failure of any of its operations fails as a whole; the  *)
(* call fails when a batch has failed and returns when all have completed.  *)
C27_BatchesDispatchedTogether ==
    [][/\ (result = NoResult /\ result'.op = "pipeline") =>
             \A k \in 1..Len(result'.batches) : result'.status[k] = "inflight"
       /\ (result.op = "pipeline" /\ result'.op = "pipeline") =>
             /\ result'.batches = result.batches
             /\ \A k \in 1..Len(result.status) :
                   /\ result.status[k] # "inflight" => result'.status[k] = result.status[k]
                   /\ result'.status[k] \in {"inflight", "done", "failed"}
                   /\ result'.status[k] = "done" =>
                         \A j \in 1..Len(result.batches[k]) :
                             ~aggregateHourScript(store, result.batches[k][j], <<>>).err
             /\ result'.settled = "rejected" =>
                   \E k \in 1..Len(result.status) : result'.status[k] = "failed"
             /\ result'.settled = "resolved" =>
                   \A k \in 1..Len(result.status) : result'.status[k] = "done"]_vars

(* The second batch has completed while the first is still in flight *)
C27_Witness ==
    /\ result.op = "pipeline"
    /\ Len(result.status) >= 2
    /\ result.status[1] = "inflight"
    /\ result.status[2] = "done"

----------------------------------------------------------------------------
(* The Cache class with its background sweep, constructed at time 0 with a  *)
(* ttl of SweepTtl ticks of the clock.                                      *)
SweepIntervalTwenty(ttl) == ttl * 20

(* setInterval(..., this.ttl * 10) *)
SweepInterval(ttl) == ttl * 10

(* Cache.set(key, value) *)
cacheSet(key) ==
    /\ cache' = (key :> [value |-> <<>>, createdAt |-> now]) @@ cache
    /\ UNCHANGED <<impl, bucketSize, retention, now, calls, store, result, evicted, deletions>>

(* Cache.get(key): an entry older than ttl is deleted *)
cacheGet(key) ==
    /\ key \in DOMAIN cache
    /\ cache' = IF CacheLive(cache, key, now, SweepTtl) THEN cache
                ELSE [k \in (DOMAIN cache) \ {key} |-> cache[k]]
    /\ UNCHANGED <<impl, bucketSize, retention, now, calls, store, result, evicted, deletions>>

(* A sweep is due: the clock is at a multiple of the interval and the       *)
(* callback has not run at this time                                        *)
SweepDue ==
    /\ now > 0
    /\ now % SweepInterval(SweepTtl) = 0
    /\ ~(result.op = "sweep" /\ result.at = now)

(* The callback of setInterval: every entry with now - createdAt > this.ttl *)
(* is deleted                                                               *)
sweep ==
    /\ SweepDue
    /\ cache' = [k \in {k \in DOMAIN cache : ~(now - cache[k].createdAt > SweepTtl)} |-> cache[k]]
    /\ result' = [op |-> "sweep", at |-> now]
    /\ UNCHANGED <<impl, bucketSize, retention, now, calls, store, evicted, deletions>>

(* The clock advances by one tick; a due callback runs first *)
tick ==
    /\ ~SweepDue
    /\ now < 2 * SweepInterval(SweepTtl) + SweepTtl + 1
    /\ now' = now + 1
    /\ UNCHANGED <<impl, bucketSize, retention, calls, store, cache, result, evicted, deletions>>

InitSweep ==
    /\ impl = "cached"
    /\ bucketSize = CacheBucketSize
    /\ retention = 0
    /\ now = 0
    /\ calls = [c \in Callers |-> NoCall]
    /\ store = <<>>
    /\ cache = <<>>
    /\ result = NoResult
    /\ evicted = {}
    /\ deletions = <<>>

NextSweep ==
    \/ \E key \in {NewBucket, OldBucket} : cacheSet(key)
    \/ \E key \in {NewBucket, OldBucket} : cacheGet(key)
    \/ sweep
    \/ tick

SpecSweep == InitSweep /\ [][NextSweep]_vars

(* A step in which the callback of the sweep runs *)
SweepStep == result' # result /\ result'.op = "sweep"

(* C28: the sweep runs every 10 x TTL and removes every entry whose age     *)
(* exceeds TTL: immediately after a sweep no entry older than TTL remains,  *)
(* the sweep never removes an entry whose age is below TTL, and an entry    *)
(* that is not refreshed is removed at most 11 x TTL after it was created.  *)
C28_SweepBoundsAge ==
    [][/\ SweepStep =>
             /\ now % (10 * SweepTtl) = 0
             /\ \A k \in DOMAIN cache :
                   (k \notin DOMAIN cache') <=> (now - cache[k].createdAt > SweepTtl)
             /\ \A k \in DOMAIN cache' :
                   cache'[k] = cache[k] /\ now - cache'[k].createdAt <= SweepTtl
       /\ \A k \in DOMAIN cache : now - cache[k].createdAt <= 11 * SweepTtl
       /\ now' > now =>
             /\ \A k \in DOMAIN cache : now - cache[k].createdAt < 11 * SweepTtl
             /\ (now > 0 /\ now % (10 * SweepTtl) = 0) => (result.op = "sweep" /\ result.at = now)]_vars

(* An entry created TTL before a sweep survived it with age TTL and is      *)
(* 11 x TTL old when the next sweep is due                                  *)
C28_Witness ==
    /\ SweepDue
    /\ \E k \in DOMAIN cache : now - cache[k].createdAt = 11 * SweepTtl
    /\ \E k \in DOMAIN cache : now - cache[k].createdAt < SweepTtl

----------------------------------------------------------------------------
(* query of the cached class and of the sdk class *)
MemT == JSONstringify(<<IdA, <<"success", Str("true")>> >>)

(* The property key a value becomes in day[k][v]: String(v) *)
PropertyKey(v) ==
    CASE v.t = "boolean" -> IF v.n = 1 THEN "true" ELSE "false"
      [] v.t = "number" -> ToString(v.n)
      [] OTHER -> v.s

(* An absent opts.filter *)
NoFilter == {"*"}

(* The body of buckets.map in query: the day of one bucket.  hash maps a    *)
(* field (the JSON text of an event, here its <<name, value>> pairs, which  *)
(* JSON.parse gives back) to its count; where is Object.entries(opts.where) *)
(* (empty when opts.where is absent or {}); filter is the set of names of   *)
(* opts.filter or NoFilter.  attrs holds day[k][v] under <<k, String(v)>>.  *)
QueryDay(time, hash, where, filter) ==
    LET skip(r) == \E i \in 1..Len(where) :
                      ~HasProp(r, where[i][1]) \/ Prop(r, where[i][1]) # where[i][2]
        add(day, k, v, n) ==
            LET cell == <<k, PropertyKey(v)>>
            IN (cell :> ((IF cell \in DOMAIN day THEN day[cell] ELSE 0) + n)) @@ day
        RECURSIVE entries(_, _, _)
        entries(r, i, day) ==
            IF i > Len(r) THEN day
            ELSE IF filter # NoFilter /\ r[i][1] \notin filter THEN entries(r, i + 1, day)
            ELSE entries(r, i + 1, add(day, r[i][1], r[i][2], hash[r]))
        RECURSIVE fields(_, _)
        fields(S, day) ==
            IF S = {} THEN day
            ELSE LET r == CHOOSE r \in S : TRUE
                 IN fields(S \ {r}, IF skip(r) THEN day ELSE entries(r, 1, day))
    IN [time |-> time, attrs |-> fields(DOMAIN hash, <<>>)]

(* Analytics.query(table, {where, filter, range}) of the cached class *)
query(table, where, filter, range) ==
    /\ impl = "cached"
    /\ IF ~validateTableName(table)
       THEN /\ result' = [op |-> "query", table |-> table, scan |-> FALSE,
                          range |-> range, at |-> now, err |-> "InvalidTableName",
                          where |-> where, filter |-> filter, buckets |-> {}, days |-> {}]
            /\ UNCHANGED <<store, cache, evicted, deletions>>
       ELSE LET r == LoadBuckets(table, FALSE, range)
            IN /\ result' = [op |-> "query", table |-> table, scan |-> FALSE,
                             range |-> range, at |-> now, err |-> "none",
                             where |-> where, filter |-> filter, buckets |-> r.buckets,
                             days |-> {QueryDay(b.key[3], b.hash, where, filter) :
                                         b \in r.buckets}]
               /\ store' = r.store
               /\ cache' = r.cache
               /\ evicted' = evicted \cup r.deleted
               /\ deletions' = Deleted(deletions, r.deleted)
    /\ UNCHANGED <<impl, bucketSize, retention, now, calls>>

(* Analytics.query(table, {where, filter, cutoff}) of the sdk class: the    *)
(* keys of the table found by scan with timestamp >= (cutoff ?? 0), each    *)
(* read with hgetall                                                        *)
querySdk(table, where, filter, cutoff) ==
    /\ impl = "sdk"
    /\ LET keys == {k \in ScanFound(store, table) : k[3] >= (IF cutoff = NoArg THEN 0 ELSE cutoff)}
       IN result' = [op |-> "querySdk", table |-> table, cutoff |-> cutoff, at |-> now,
                     err |-> "none", where |-> where, filter |-> filter,
                     buckets |-> {[key |-> k, hash |-> store[k]] : k \in keys},
                     days |-> {QueryDay(k[3], store[k], where, filter) : k \in keys}]
    /\ UNCHANGED <<impl, bucketSize, retention, now, calls, store, cache, evicted, deletions>>

(* The specification of the range reads: at time 0 the store holds any      *)
(* counters of three attribute combinations in the bucket of now and in the *)
(* next bucket (events ingested with an explicit later time).               *)
QueryStores ==
    {StoreOf(f) : f \in [({Join(<<Prefix, FooBar1, 0>>)} \X {MemA, MemB, MemT})
                         \cup ({Join(<<Prefix, FooBar1, CacheBucketSize>>)} \X {MemA, MemT})
                         -> {0, 1, 2}]}

Wheres == {<<>>, << <<"success", Bool(TRUE)>> >>, << IdA, <<"success", Str("true")>> >>,
           << <<"color", Str("red")>> >>}
Filters == {NoFilter, {}, {"success"}, {"identifier", "color"}}

InitQuery ==
    /\ impl \in {"cached", "sdk"}
    /\ bucketSize = CacheBucketSize
    /\ retention = 0
    /\ now = 0
    /\ calls = [c \in Callers |-> NoCall]
    /\ store \in QueryStores
    /\ cache = <<>>
    /\ result = NoResult
    /\ evicted = {}
    /\ deletions = <<>>

NextQuery ==
    \/ \E table \in TableNames, where \in Wheres, filter \in Filters, range \in Ranges :
          result = NoResult /\ query(table, where, filter, range)
    \/ \E where \in Wheres, filter \in Filters, cutoff \in {NoArg, 0, CacheBucketSize} :
          result = NoResult /\ querySdk(FooBar1, where, filter, cutoff)
    \/ \E table \in TableNames, range \in Ranges : result = NoResult /\ count(table, range)
    \/ \E scan \in BOOLEAN, range \in Ranges :
          result = NoResult /\ loadBuckets(FooBar1, scan, range)

SpecQuery == InitQuery /\ [][NextQuery]_vars

(* C29 as claimed: a range read with range [start, end] is inclusive on     *)
(* both ends: it returns an entry for a bucket if and only if               *)
(* start <= bucketStart <= end, so every stored bucket of the table with    *)
(* bucketStart in the range (also one later than now) is returned and no    *)
(* bucket outside the range is returned, on the key-derivation path and on  *)
(* the pattern-scan path.                                                   *)
C29_RangeInclusive ==
    (result.op \in ReadOps /\ result.err = "none") =>
        /\ \A b \in result.buckets :
              result.range[1] <= b.key[3] /\ b.key[3] <= result.range[2]
        /\ \A k \in ScanFound(store, result.table) :
              (result.range[1] <= k[3] /\ k[3] <= result.range[2])
                 => \E b \in result.buckets : b.key = k

(* The counters of a bucket that pass the equality filters *)
Contributing(hash, where) ==
    {r \in DOMAIN hash :
        \A i \in 1..Len(where) : HasProp(r, where[i][1]) /\ Prop(r, where[i][1]) = where[i][2]}

(* C30 as claimed: a counter of a bucket contributes to query if and only   *)
(* if its attributes contain every key of where with a strictly equal       *)
(* value; for each returned bucket and each attribute k in filter (every    *)
(* attribute when filter is absent) result[k][v] is the sum of the counts   *)
(* of the contributing counters whose attribute k has value v; no           *)
(* attribute outside filter appears.                                        *)
C30_QueryFiltersAndProjects ==
    (result.op \in {"query", "querySdk"} /\ result.err = "none") =>
        \A b \in result.buckets :
            \E day \in result.days :
                /\ day.time = b.key[3]
                /\ \A cell \in DOMAIN day.attrs :
                      result.filter = NoFilter \/ cell[1] \in result.filter
                /\ \A r \in Contributing(b.hash, result.where) : \A i \in 1..Len(r) :
                      (result.filter = NoFilter \/ r[i][1] \in result.filter) =>
                         /\ <<r[i][1], PropertyKey(r[i][2])>> \in DOMAIN day.attrs
                         /\ day.attrs[<<r[i][1], PropertyKey(r[i][2])>>] =
                               SumHash(b.hash, {q \in Contributing(b.hash, result.where) :
                                                  HasProp(q, r[i][1]) /\ Prop(q, r[i][1]) = r[i][2]})
                /\ \A cell \in DOMAIN day.attrs :
                      \E r \in Contributing(b.hash, result.where) : \E i \in 1..Len(r) :
                          cell = <<r[i][1], PropertyKey(r[i][2])>>

----------------------------------------------------------------------------
(* getAllowedBlocked of the core class *)

(* getAllowedBlockedScript run with KEYS = <<prefix>> and ARGV: the reply   *)
(* of ZUNION num_timestamps keys... WITHSCORES, member and score in turn    *)
(* (result[2p - 1] is the member and result[2p] the score of entry p).      *)
(* ZUNION with 0 keys is an error of the store.                             *)
getAllowedBlockedScript(db, prefix, ARGV) ==
    IF ARGV[3] < 1
    THEN ScriptError
    ELSE [err |-> FALSE, result |-> zunion(db, ScriptKeys(prefix, ARGV[1], ARGV[2], ARGV[3]))]

(* for (let i = 0; i < result.length; i += 2): info = result[i], count =    *)
(* +result[i + 1]; allowedBlocked[identifier] starts as {success: 0,        *)
(* blocked: 0} and allowedBlocked[identifier][info.success ? "success" :    *)
(* "blocked"] = count.  entries[p] is <<result[2p - 2], result[2p - 1]>>.   *)
AllowedBlocked(entries) ==
    LET RECURSIVE loop(_, _)
        loop(p, allowedBlocked) ==
            IF p > Len(entries) THEN allowedBlocked
            ELSE LET info == entries[p][1]
                     identifier == Prop(info, "identifier").s
                     amount == entries[p][2]   \* count
                     truthy == \/ Prop(info, "success") = Bool(TRUE)
                               \/ Prop(info, "success").t = "string" /\ Prop(info, "success").s # ""
                     old == IF identifier \in DOMAIN allowedBlocked
                            THEN allowedBlocked[identifier]
                            ELSE [success |-> 0, blocked |-> 0]
                     new == IF truthy THEN [old EXCEPT !.success = amount]
                                      ELSE [old EXCEPT !.blocked = amount]
                 IN loop(p + 1, (identifier :> new) @@ allowedBlocked)
    IN loop(1, <<>>)

(* Analytics.getAllowedBlocked(table, timestampCount, timestamp):           *)
(* eval(getAllowedBlockedScript, [key], [bucket, this.bucketSize,           *)
(* timestampCount])                                                         *)
getAllowedBlocked(table, timestampCount, timestamp) ==
    /\ impl = "core"
    /\ result = NoResult
    /\ LET key == Join(<<Prefix, table>>)
           bucket == getBucket(OrNow(timestamp), bucketSize)
           reply == getAllowedBlockedScript(store, key, <<bucket, bucketSize, timestampCount>>)
           err == IF ~validateTableName(table) THEN "InvalidTableName"
                  ELSE IF reply.err THEN "ScriptError" ELSE "none"
       IN result' = [op |-> "getAllowedBlocked", table |-> table,
                     timestampCount |-> timestampCount, timestamp |-> timestamp,
                     err |-> err,
                     union |-> IF err = "none" THEN reply.result ELSE <<>>,
                     value |-> IF err = "none" THEN AllowedBlocked(reply.result) ELSE <<>>]
    /\ UNCHANGED <<impl, bucketSize, retention, now, calls, store, cache, evicted, deletions>>

(* The specification of getAllowedBlocked: the two newest buckets of table  *)
(* foo-bar_1 hold any counters of identifier A that differ in the success   *)
(* flag or in a further attribute, and of the identifiers B and D.          *)
InitAllowed ==
    /\ impl = "core"
    /\ bucketSize = ReadBucketSize
    /\ retention = 0
    /\ now = ReadNow
    /\ calls = [c \in Callers |-> NoCall]
    /\ store \in {StoreOf(f) :
                    f \in [{<<NewBucket, MemA>>, <<OldBucket, MemA>>,
                            <<NewBucket, JSONstringify(<<IdA, <<"success", Bool(TRUE)>>,
                                                         <<"plan", Str("x")>> >>)>>,
                            <<NewBucket, JSONstringify(<<IdA, <<"success", Bool(FALSE)>> >>)>>,
                            <<OldBucket, MemB>>, <<NewBucket, MemD>>}
                           -> {0, 1, 2}]}
    /\ cache = <<>>
    /\ result = NoResult
    /\ evicted = {}
    /\ deletions = <<>>

NextAllowed ==
    \E table \in TableNames, timestampCount \in 0..MaxTimestampCount,
       timestamp \in ReadTimestamps :
          getAllowedBlocked(table, timestampCount, timestamp)

SpecAllowed == InitAllowed /\ [][NextAllowed]_vars

(* C31 as claimed: getAllowedBlocked returns, for every identifier that     *)
(* occurs in the union of the timestampCount buckets, success = the total   *)
(* union count of all members of that identifier whose success flag is      *)
(* true and blocked = the total union count of all its members that were    *)
(* not allowed (success false or the denied marker), also when an           *)
(* identifier has several members that differ in other attributes.          *)
C31_AllowedBlockedTotals ==
    (result.op = "getAllowedBlocked" /\ result.err = "none") =>
        LET b == getBucket(OrNow(result.timestamp), bucketSize)
            n == result.timestampCount
            members == WindowMembers(result.table, b, n)
            total(S) == LET RECURSIVE sum(_)
                            sum(T) == IF T = {} THEN 0
                                      ELSE LET m == CHOOSE m \in T : TRUE
                                           IN WindowCount(result.table, b, n, m) + sum(T \ {m})
                        IN sum(S)
        IN /\ DOMAIN result.value = {Prop(m, "identifier").s : m \in members}
           /\ \A id \in DOMAIN result.value :
                 /\ result.value[id].success =
                       total({m \in members : /\ Prop(m, "identifier").s = id
                                              /\ Prop(m, "success") = Bool(TRUE)})
                 /\ result.value[id].blocked =
                       total({m \in members : /\ Prop(m, "identifier").s = id
                                              /\ Prop(m, "success") # Bool(TRUE)})

----------------------------------------------------------------------------
(* The loops that collect the keys of a read, step by step.  result holds   *)
(* the locals of the running call: pc (the loop it is in), t, keys, cursor  *)
(* and the number of loop iterations so far.                                *)

(* JavaScript numbers are binary floating point: a result is rounded to the *)
(* nearest number of MantissaBits significant bits, ties to even.  The      *)
(* significand has 53 bits; the loops depend on it only through the ratio   *)
(* of t to bucketSize, and the model scales both down.                      *)
MantissaBits == 4
MaxSteps == 8

Round(x) ==
    LET a == IF x < 0 THEN 0 - x ELSE x
        RECURSIVE Ulp(_)
        Ulp(q) == IF a < (2 ^ MantissaBits) * q THEN q ELSE Ulp(2 * q)
        q == Ulp(1)
        r == a % q
        base == a - r
        rounded == IF 2 * r > q \/ (2 * r = q /\ (base \div q) % 2 = 1) THEN base + q ELSE base
    IN IF x < 0 THEN 0 - rounded ELSE rounded

(* The pages redis.scan hands out for a match pattern: the keys of the      *)
(* store one per call, in an order of the store's choosing; found holds the *)
(* key when it matches prefix:table:*.  The cursor returned with page k is  *)
(* k, and 0 with the last page.                                             *)
RECURSIVE ScanPages(_)
ScanPages(S) ==
    IF S = {} THEN <<>>
    ELSE LET k == CHOOSE k \in S : TRUE IN <<k>> \o ScanPages(S \ {k})

(* loadBuckets of the cached class up to its first loop: validateTableName, *)
(* now = Date.now(), keys = [], and either cursor = 0 or                    *)
(* t = Math.floor(now / this.bucketSize) * this.bucketSize, which is NaN    *)
(* for bucketSize 0 (now / 0 is Infinity or NaN, and Infinity * 0 is NaN)   *)
loadStart(table, scan, range) ==
    /\ impl = "cached"
    /\ result = NoResult
    /\ result' = [op |-> "loadBuckets", table |-> table, scan |-> scan, range |-> range,
                  at |-> now, cutoff |-> 0,
                  err |-> IF validateTableName(table) THEN "none" ELSE "InvalidTableName",
                  pc |-> IF ~validateTableName(table) THEN "done"
                         ELSE IF scan THEN "scan" ELSE "skip",
                  nan |-> (bucketSize = 0),
                  t |-> IF bucketSize = 0 THEN 0
                        ELSE Round(Round(now \div bucketSize) * bucketSize),
                  keys |-> <<>>, cursor |-> 0, pages |-> ScanPages(DOMAIN store),
                  steps |-> 0]
    /\ UNCHANGED <<impl, bucketSize, retention, now, calls, store, cache, evicted, deletions>>

(* count and query of the sdk class up to their scan loop *)
scanStart(table, cutoff) ==
    /\ impl = "sdk"
    /\ result = NoResult
    /\ result' = [op |-> "count", table |-> table, scan |-> TRUE, range |-> <<0, 0>>,
                  at |-> now, cutoff |-> IF cutoff = NoArg THEN 0 ELSE cutoff,
                  err |-> "none", pc |-> "scan", nan |-> FALSE, t |-> 0,
                  keys |-> <<>>, cursor |-> 0, pages |-> ScanPages(DOMAIN store),
                  steps |-> 0]
    /\ UNCHANGED <<impl, bucketSize, retention, now, calls, store, cache, evicted, deletions>>

(* One test of while (t > opts.range[1]) and, when it holds, the body       *)
(* t -= this.bucketSize.  Every comparison with NaN is false.               *)
skipStep ==
    /\ result.op \in {"loadBuckets", "count"}
    /\ result.pc = "skip"
    /\ result.steps < MaxSteps
    /\ result' = IF ~result.nan /\ result.t > result.range[2]
                 THEN [result EXCEPT !.t = Round(@ - bucketSize), !.steps = @ + 1]
                 ELSE [result EXCEPT !.pc = "take", !.steps = @ + 1]
    /\ UNCHANGED <<impl, bucketSize, retention, now, calls, store, cache, evicted, deletions>>

(* One test of while (t >= opts.range[0]) and, when it holds, the body      *)
(* keys.push([this.prefix, table, t].join(":")); t -= this.bucketSize       *)
takeStep ==
    /\ result.op \in {"loadBuckets", "count"}
    /\ result.pc = "take"
    /\ result.steps < MaxSteps
    /\ result' = IF ~result.nan /\ result.t >= result.range[1]
                 THEN [result EXCEPT !.keys = Append(@, Join(<<Prefix, result.table, result.t>>)),
                                     !.t = Round(@ - bucketSize), !.steps = @ + 1]
                 ELSE [result EXCEPT !.pc = "done", !.steps = @ + 1]
    /\ UNCHANGED <<impl, bucketSize, retention, now, calls, store, cache, evicted, deletions>>

(* One pass of do { [nextCursor, found] = await redis.scan(cursor, {match}); *)
(* cursor = nextCursor; for (key of found) ... } while (cursor !== 0).  The *)
(* cached class deletes a found key older than the retention and keeps a    *)
(* key with timestamp >= range[0] || timestamp <= range[1]; the sdk class   *)
(* keeps a key with timestamp >= (cutoff ?? 0).                             *)
scanStep ==
    /\ result.op \in {"loadBuckets", "count"}
    /\ result.pc = "scan"
    /\ result.steps < MaxSteps
    /\ LET page == result.cursor + 1
           nextCursor == IF page >= Len(result.pages) THEN 0 ELSE page
           found == IF page <= Len(result.pages)
                    THEN {k \in {result.pages[page]} :
                            k \in ScanFound(store, result.table)}
                    ELSE {}
           deleted == {k \in found : impl = "cached" /\ Expired(k)}
           kept == {k \in found \ deleted :
                      IF impl = "cached"
                      THEN k[3] >= result.range[1] \/ k[3] <= result.range[2]
                      ELSE k[3] >= result.cutoff}
       IN /\ result' = [result EXCEPT !.cursor = nextCursor,
                                      !.keys = @ \o ScanPages(kept),
                                      !.pc = IF nextCursor # 0 THEN "scan" ELSE "done",
                                      !.steps = @ + 1]
          /\ store' = del(store, deleted)
          /\ evicted' = evicted \cup deleted
          /\ deletions' = Deleted(deletions, deleted)
    /\ UNCHANGED <<impl, bucketSize, retention, now, calls, cache>>

(* The specification of the loops: a window "0s", 1 or 2, a clock that is   *)
(* early or so late that t - 1 is t again, a store with any of four keys,   *)
(* and one read.  A loop that is entered runs on: the code between two      *)
(* tests does not wait, and the store answers every scan.                   *)
InitLoop ==
    /\ impl \in {"cached", "sdk"}
    /\ bucketSize \in {0, 1, 2}
    /\ retention \in {0, 1}
    /\ impl = "sdk" => retention = 0
    /\ now \in {0, 3, 2 ^ (MantissaBits + 2)}
    /\ calls = [c \in Callers |-> NoCall]
    /\ store \in {[k \in S |-> (MemA :> 1)] :
                    S \in SUBSET ({Join(<<Prefix, FooBar1, b>>) : b \in {0, 2, 4}}
                                  \cup {Join(<<Prefix, <<"t">>, 0>>)})}
    /\ cache = <<>>
    /\ result = NoResult
    /\ evicted = {}
    /\ deletions = <<>>

NextLoop ==
    \/ \E table \in TableNames, scan \in BOOLEAN,
          range \in {<<0, 0>>, <<0, 4>>, <<2, 4>>, <<2, 1>>, <<4, 6>>} :
          loadStart(table, scan, range)
    \/ \E cutoff \in {NoArg, 0, 2} : scanStart(FooBar1, cutoff)
    \/ skipStep
    \/ takeStep
    \/ scanStep

SpecLoop == InitLoop /\ [][NextLoop]_vars /\ WF_vars(NextLoop)

(* The aligned bucket starts of a range *)
AlignedStarts(range) == {b \in range[1]..range[2] : b % bucketSize = 0}

(* C32 as claimed: every call of count, query or aggregateBy terminates for *)
(* every finite range and every window the constructor accepts.  Each       *)
(* iteration of the key-derivation loops lowers t, which the range bounds   *)
(* from below, and when the loops end they have pushed one key per aligned  *)
(* bucket start in the range, none when range[0] > range[1]; each pass of   *)
(* the scan loop takes the next page, and the loop ends with the pass in    *)
(* which the store returns the cursor 0.                                    *)
C32_LoopsTerminate ==
    [][/\ (result.op \in {"loadBuckets", "count"} /\ result.pc \in {"skip", "take"}
           /\ result'.pc = result.pc)
          => result'.t < result.t
       /\ (result.op \in {"loadBuckets", "count"} /\ result.pc = "take"
           /\ result'.pc = "done" /\ bucketSize > 0)
          => /\ {result'.keys[j] : j \in 1..Len(result'.keys)} =
                   {Join(<<Prefix, result.table, b>>) : b \in AlignedStarts(result.range)}
             /\ Len(result'.keys) = Cardinality(AlignedStarts(result.range))
       /\ (result.op \in {"loadBuckets", "count"} /\ result.pc = "scan")
          => /\ result.cursor < Len(result.pages)
                => (result'.cursor = 0) = (result.cursor + 1 = Len(result.pages))
             /\ (result'.pc = "done") = (result'.cursor = 0)]_vars

====
